---- MODULE Spec2Model ----
(***************************************************************************)
(* A model of pluck's normalization engine: the JSON walker (_json.py),    *)
(* the normalizer that flattens one JSON value into rows                   *)
(* (_normalization.py), the frame extractor and the short column names     *)
(* (_execution.py), the builder of the query description (_parser.py) and  *)
(* the columnar entry points (_engine.py).                                 *)
(*                                                                         *)
(* Strings (object keys, the separator, the fallback, column names) are    *)
(* sequences of one-character strings, so that str.join is computed and a  *)
(* column name can be compared with the path it was generated from.        *)
(***************************************************************************)
EXTENDS Integers, Sequences, FiniteSets, TLC

VARIABLES
    \* the walk: its root, the walker's deque, and where the call stands
    obj, stack, pc,
    \* normalize: its options and the JsonNormalizerContext
    options, rows, paths,
    \* Executor._extract: the ParsedQuery, the FrameExtractor's _captured, the
    \* context's _frame_data, and what _extract returns
    query, captured, frame_data, extracted,
    \* ParsedQueryBuilder: _frames, _current_frames, _frame_names,
    \* _selection_set, and the calls made on it so far
    frames, current_frames, frame_names, selection_set, calls,
    \* rename_short: the builder's _separator, df.columns, how many of them
    \* have been added, and the builder's _new_to_old and _old_to_new
    short_separator, columns, n_added, new_to_old, old_to_new,
    \* the columnar entry points: the trees given to the batch call, how many
    \* of them the single-tree call has been given, what the single-tree
    \* calls gave merged column by column, and what the batch call gave
    objects, n_called, individual, batch,
    \* a visitor of the walker: the paths at which its enter callbacks return
    \* STOP, and the callbacks it has received so far
    stops, events,
    \* Executor.execute: the column_names option, the client's response once
    \* it has answered, the number of client calls, the table built for each
    \* frame, and what execute returns
    column_names, response, client_calls, tables, result

normalizerVars == <<options, rows, paths>>
extractorVars == <<query, captured, frame_data, extracted>>
builderVars == <<frames, current_frames, frame_names, selection_set, calls>>
renamerVars == <<short_separator, columns, n_added, new_to_old, old_to_new>>
engineVars == <<objects, n_called, individual, batch>>
visitorVars == <<stops, events>>
executorVars == <<column_names, response, client_calls, tables, result>>

vars == <<obj, stack, pc, normalizerVars, extractorVars, builderVars, renamerVars,
          engineVars, visitorVars, executorVars>>

(***************************************************************************)
(* Bounds of the input family.                                             *)
(***************************************************************************)
\* nodes of an input of the exhaustive family
MaxNodes == 4
\* array-valued fields of an input of the dimension family
MaxDims == 2
\* elements of all the arrays of an input of the dimension family
MaxCells == 4
\* elements of the array of an input of the pruning family
MaxElems == 2
\* keys on the route to a leaf of the naming family
MaxSegs == 2
\* calls made on a ParsedQueryBuilder before build
MaxCalls == 3
\* columns of a table whose columns are renamed
MaxColumns == 3
\* trees given to one batch call
MaxObjects == 2

(***************************************************************************)
(* JsonValue (_json.py:8-11).  A scalar keeps its Python type in t and its *)
(* literal, as a string, in v.                                             *)
(***************************************************************************)
Null == [t |-> "null"]
JStr(s) == [t |-> "str", v |-> s]
JInt(s) == [t |-> "int", v |-> s]
JFloat(s) == [t |-> "float", v |-> s]
JBool(s) == [t |-> "bool", v |-> s]
\* an object is its (key, value) items in insertion order
Obj(items) == [t |-> "object", items |-> items]
Arr(items) == [t |-> "array", items |-> items]

\* Optional[...] values of the options
None == [some |-> FALSE]
Some(x) == [some |-> TRUE, v |-> x]

\* the STOP action of a visitor, and the None a callback returns otherwise
STOP == "STOP"
CONTINUE == "None"

\* JsonWalker._is_scalar_value / _is_object_value / _is_array_value
IsScalarValue(o) == o.t \in {"str", "float", "int", "bool"}
IsObjectValue(o) == o.t = "object"
IsArrayValue(o) == o.t = "array"

\* Python's `item is not None`
IsNotNone(o) == o.t # "null"

\* JsonPath.add
PathAdd(path, key) == Append(path, key)

\* str.join that always joins with "."
RECURSIVE StrJoinDot(_, _)
StrJoinDot(separator, path) ==
    IF path = <<>> THEN <<>>
    ELSE IF Len(path) = 1 THEN path[1]
    ELSE path[1] \o <<".">> \o StrJoinDot(separator, Tail(path))

(***************************************************************************)
(* str.join on the segments of a path.                                     *)
(***************************************************************************)
RECURSIVE StrJoin(_, _)
StrJoin(separator, path) ==
    IF path = <<>> THEN <<>>
    ELSE IF Len(path) = 1 THEN path[1]
    ELSE path[1] \o separator \o StrJoin(separator, Tail(path))

\* truthiness of an Optional[str] and of an Optional[Set]
TruthyStr(o) == o.some /\ o.v # <<>>
TruthySet(o) == o.some /\ o.v # {}

\* a name made of the last key only
GenerateNameLast(opts, path) ==
    LET name == IF path = <<>> THEN <<>> ELSE path[Len(path)]
    IN IF name = <<>> /\ TruthyStr(opts.fallback) THEN opts.fallback.v ELSE name

\* JsonNormalizerContext._generate_name
GenerateName(opts, path) ==
    LET name == StrJoin(opts.separator, path)
    IN IF name = <<>> /\ TruthyStr(opts.fallback) THEN opts.fallback.v ELSE name

(***************************************************************************)
(* A row is a Python dict: its (name, value) items in insertion order,     *)
(* names unique.                                                           *)
(***************************************************************************)
RowKeys(row) == {row[i][1] : i \in 1..Len(row)}
RowHas(row, name) == \E i \in 1..Len(row) : row[i][1] = name
RowGet(row, name) == row[CHOOSE i \in 1..Len(row) : row[i][1] = name][2]

\* row[name] = value
RowSetItem(row, name, value) ==
    IF RowHas(row, name)
    THEN [i \in 1..Len(row) |-> IF row[i][1] = name THEN <<name, value>> ELSE row[i]]
    ELSE Append(row, <<name, value>>)

\* x | y
RECURSIVE RowOr(_, _)
RowOr(x, y) ==
    IF y = <<>> THEN x
    ELSE RowOr(RowSetItem(x, y[1][1], y[1][2]), Tail(y))

\* dict equality, which ignores the order of the items
RowEq(x, y) ==
    /\ RowKeys(x) = RowKeys(y)
    /\ \A n \in RowKeys(x) : RowGet(x, n) = RowGet(y, n)

RowsEq(xs, ys) ==
    /\ Len(xs) = Len(ys)
    /\ \A i \in 1..Len(xs) : RowEq(xs[i], ys[i])

(***************************************************************************)
(* JsonNormalizerContext: ctx is [rows, paths].                            *)
(***************************************************************************)
\* JsonNormalizerContext.__init__
NewContext == [rows |-> << <<>> >>, paths |-> {}]

\* JsonNormalizerContext.set
ContextSet(opts, ctx, path, value) ==
    [rows |-> [i \in 1..Len(ctx.rows) |->
                  RowSetItem(ctx.rows[i], GenerateName(opts, path), value)],
     paths |-> ctx.paths \cup {path}]

\* _spy: None for an exhausted generator, otherwise the items again
Spy(generator) == IF generator = <<>> THEN None ELSE Some(generator)

\* the product with the left operand varying fastest
ProductLeftFastest(xs, ys) ==
    [k \in 1..(Len(xs) * Len(ys)) |->
        RowOr(xs[((k - 1) % Len(xs)) + 1], ys[((k - 1) \div Len(xs)) + 1])]

\* [x | y for x, y in itertools.product(rows, other)]
Product(xs, ys) ==
    [k \in 1..(Len(xs) * Len(ys)) |->
        RowOr(xs[((k - 1) \div Len(ys)) + 1], ys[((k - 1) % Len(ys)) + 1])]

\* cross_join without the look-ahead of _spy
CrossJoinNoSpy(ctx, other) == [ctx EXCEPT !.rows = Product(ctx.rows, other)]

\* cross_join that also treats a group of column-less rows as empty
CrossJoinSkipBlank(ctx, other) ==
    IF \E i \in 1..Len(other) : other[i] # <<>>
    THEN [ctx EXCEPT !.rows = Product(ctx.rows, other)]
    ELSE ctx

\* JsonNormalizerContext.cross_join
CrossJoin(ctx, other) ==
    LET spied == Spy(other)
    IN IF spied.some THEN [ctx EXCEPT !.rows = Product(ctx.rows, spied.v)] ELSE ctx

\* chain that gives every row the columns of all rows, null where it has none
RECURSIVE ChainAll(_)
ChainAll(seqs) == IF seqs = <<>> THEN <<>> ELSE Head(seqs) \o ChainAll(Tail(seqs))

RECURSIVE FillNull(_, _)
FillNull(row, names) ==
    IF names = {} THEN row
    ELSE LET n == CHOOSE x \in names : TRUE
         IN FillNull(IF RowHas(row, n) THEN row ELSE Append(row, <<n, Null>>), names \ {n})

ChainUnified(seqs) ==
    LET all == ChainAll(seqs)
    IN [i \in 1..Len(all) |-> FillNull(all[i], UNION {RowKeys(all[j]) : j \in 1..Len(all)})]

\* itertools.chain(*rows)
RECURSIVE Chain(_)
Chain(seqs) == IF seqs = <<>> THEN <<>> ELSE Head(seqs) \o Chain(Tail(seqs))

\* union of the paths of a list of results
RECURSIVE AllPaths(_)
AllPaths(results) ==
    IF results = <<>> THEN {} ELSE Head(results).paths \cup AllPaths(Tail(results))

\* _set without the selection-set filter
VisitorSetUnfiltered(opts, ctx, path, value) == ContextSet(opts, ctx, path, value)

\* JsonNormalizerVisitor._set
VisitorSet(opts, ctx, path, value) ==
    IF ~TruthySet(opts.selection_set) \/ path \in opts.selection_set.v
    THEN ContextSet(opts, ctx, path, value)
    ELSE ctx

\* JsonNormalizerVisitor.on_scalar
OnScalar(opts, ctx, path, value) == VisitorSet(opts, ctx, path, value)

\* on_null that drops the value
OnNullIgnored(opts, ctx, path) == ctx

\* on_null that writes the null whatever the selection set
OnNullUnfiltered(opts, ctx, path) == ContextSet(opts, ctx, path, Null)

\* JsonNormalizerVisitor.on_null
OnNull(opts, ctx, path) == VisitorSet(opts, ctx, path, Null)

\* Python truthiness of a JSON value
Truthy(o) ==
    IF o.t \in {"object", "array"} THEN o.items # <<>>
    ELSE IF o.t = "null" THEN FALSE
    ELSE o.v \notin {<<>>, <<"0">>, <<"F">>}

\* `item for item in value if item`
ArrayItemsTruthy(value) == SelectSeq(value.items, Truthy)

\* `item for item in value if item is not None`
ArrayItems(value) == SelectSeq(value.items, IsNotNone)

(***************************************************************************)
(* JsonWalker.walk, one iteration of its loop at a time.  A walk state is  *)
(* [stack, ctx]; the stack is the deque, leftmost entry first.             *)
(***************************************************************************)
Put(stk, path, o, leave) == <<[path |-> path, obj |-> o, leave |-> leave]>> \o stk

\* the puts of the fields without `reversed`
RECURSIVE PutFieldsForward(_, _, _)
PutFieldsForward(stk, path, items) ==
    IF items = <<>> THEN stk
    ELSE PutFieldsForward(Put(stk, PathAdd(path, items[1][1]), items[1][2], FALSE),
                          path, Tail(items))

\* `for key, value in reversed(current.items()): put(path.add(key), value)`
RECURSIVE PutFields(_, _, _)
PutFields(stk, path, items) ==
    IF items = <<>> THEN stk
    ELSE Put(PutFields(stk, path, Tail(items)), PathAdd(path, items[1][1]), items[1][2], FALSE)

\* `for value in reversed(current): put(path, value)`
RECURSIVE PutElements(_, _, _)
PutElements(stk, path, items) ==
    IF items = <<>> THEN stk
    ELSE Put(PutElements(stk, path, Tail(items)), path, items[1], FALSE)

RECURSIVE EnterArray(_, _, _, _)
RECURSIVE WalkStep(_, _)
RECURSIVE Walk(_, _)
RECURSIVE Normalize(_, _, _)

\* JsonNormalizerContext.normalize, for every item of an array: the results
RECURSIVE NormalizeItems(_, _, _)
NormalizeItems(opts, path, items) ==
    IF items = <<>> THEN <<>>
    ELSE <<Normalize(opts, path, Head(items))>> \o NormalizeItems(opts, path, Tail(items))

\* the rows of a list of results
ResultRows(results) == [i \in 1..Len(results) |-> results[i].rows]

\* JsonNormalizerVisitor.enter_array: the context it leaves and what it returns
EnterArray(opts, ctx, path, value) ==
    LET results == NormalizeItems(opts, path, ArrayItems(value))
        other == Chain(ResultRows(results))
        merged == [ctx EXCEPT !.paths = ctx.paths \cup AllPaths(results)]
    IN [ctx |-> CrossJoin(merged, other), action |-> STOP]

\* JsonVisitor.enter_object, which the normalizer does not override
EnterObject(opts, ctx, path, value) == [ctx |-> ctx, action |-> CONTINUE]

\* one iteration of `while stack`
WalkStep(opts, st) ==
    LET top == Head(st.stack)
        rest == Tail(st.stack)
    IN IF top.leave THEN [st EXCEPT !.stack = rest]
       ELSE IF IsScalarValue(top.obj)
       THEN [stack |-> rest, ctx |-> OnScalar(opts, st.ctx, top.path, top.obj)]
       ELSE IF top.obj = Null
       THEN [stack |-> rest, ctx |-> OnNull(opts, st.ctx, top.path)]
       ELSE IF IsObjectValue(top.obj)
       THEN LET r == EnterObject(opts, st.ctx, top.path, top.obj)
            IN [stack |-> IF r.action # STOP
                          THEN PutFields(Put(rest, top.path, top.obj, TRUE),
                                         top.path, top.obj.items)
                          ELSE rest,
                ctx |-> r.ctx]
       ELSE LET r == EnterArray(opts, st.ctx, top.path, top.obj)
            IN [stack |-> IF r.action # STOP
                          THEN PutElements(Put(rest, top.path, top.obj, TRUE),
                                           top.path, top.obj.items)
                          ELSE rest,
                ctx |-> r.ctx]

\* the whole loop
Walk(opts, st) == IF st.stack = <<>> THEN st ELSE Walk(opts, WalkStep(opts, st))

\* JsonNormalizer.normalize with initial_path: the JsonNormalizerResult
Normalize(opts, initial_path, o) ==
    Walk(opts, [stack |-> Put(<<>>, initial_path, o, FALSE), ctx |-> NewContext]).ctx

\* normalize(obj, separator, fallback, selection_set)
NormalizeRows(opts, o) == Normalize(opts, <<>>, o).rows

(***************************************************************************)
(* The inputs of normalize: every JSON value of at most MaxNodes nodes     *)
(* over the keys and scalars below, and the options it is called with.     *)
(***************************************************************************)
Keys == {<<"a">>, <<"b">>}

\* a truthy scalar and the falsy ones: "", 0, False
Scalars == {JStr(<<"s">>), JStr(<<>>), JInt(<<"0">>), JBool(<<"F">>)}

Leaves == Scalars \cup {Null}

\* sequences of n distinct keys
KeySeqs(n) == {ks \in [1..n -> Keys] : \A i, j \in 1..n : i # j => ks[i] # ks[j]}

\* the items of an object with the keys ks and the values vs
Zip(ks, vs) == [i \in 1..Len(ks) |-> <<ks[i], vs[i]>>]

\* the values of 1..n nodes and the non-empty sequences of values (forests)
\* of 1..n-1 nodes: vals[k] holds the values of exactly k nodes
RECURSIVE ValueTable(_)
ValueTable(n) ==
    IF n = 1 THEN [vals |-> <<Leaves \cup {Obj(<<>>), Arr(<<>>)}>>, forests |-> <<>>]
    ELSE LET prev == ValueTable(n - 1)
             forests ==
                 UNION {{<<v>> \o f : v \in prev.vals[k],
                                      f \in IF k = n - 1 THEN {<<>>}
                                            ELSE prev.forests[n - 1 - k]} :
                        k \in 1..(n - 1)}
             vals == {Arr(f) : f \in forests}
                     \cup UNION {{Obj(Zip(ks, f)) : ks \in KeySeqs(Len(f))} : f \in forests}
         IN [vals |-> Append(prev.vals, vals), forests |-> Append(prev.forests, forests)]

\* the values of at most n nodes
Inputs(n) == LET t == ValueTable(n) IN UNION {t.vals[k] : k \in 1..n}

Separators == {<<".">>, <<"_">>}
Fallbacks == {Some(<<"?">>), None}
SelectionSets ==
    {None, Some({}), Some({<<<<"a">>>>}), Some({<<>>, <<<<"b">>>>, <<<<"a">>, <<"b">>>>})}

DefaultSeparator == <<".">>
DefaultFallback == Some(<<"?">>)

\* the separator and the fallback vary without a selection set, the selection
\* set varies under the default separator and fallback
OptionSets ==
    {o \in [separator : Separators, fallback : Fallbacks, selection_set : SelectionSets] :
        \/ o.selection_set = None
        \/ o.separator = DefaultSeparator /\ o.fallback = DefaultFallback}

\* sequences of at most n elements of S
SeqsUpTo(S, n) == UNION {[1..k -> S] : k \in 0..n}

(***************************************************************************)
(* The dimension family: an object with up to MaxDims array-valued fields  *)
(* of up to MaxCells elements in all, and possibly a scalar field before   *)
(* them or a null field after them.                                        *)
(***************************************************************************)
DimElems ==
    {Null,
     Obj(<< <<<<"c">>, JInt(<<"0">>)>> >>),
     Obj(<< <<<<"e">>, JStr(<<"s">>)>>, <<<<"c">>, JBool(<<"F">>)>> >>)}

\* the key of the i-th array-valued field: d, dd, ...
DimKey(i) == [j \in 1..i |-> "d"]

DimFields(arrs) == [i \in 1..Len(arrs) |-> <<DimKey(i), arrs[i]>>]

RECURSIVE Sum(_)
Sum(ns) == IF ns = <<>> THEN 0 ELSE Head(ns) + Sum(Tail(ns))

\* the lengths of at most d arrays of at most t elements in all
DimShapes(d, t) == {ns \in UNION {[1..k -> 0..t] : k \in 0..d} : Sum(ns) <= t}

\* the arrays of the lengths ns that hold the elements cells, in order
DimArrays(ns, cells) ==
    [i \in 1..Len(ns) |->
        Arr([j \in 1..ns[i] |-> cells[Sum(SubSeq(ns, 1, i - 1)) + j]])]

\* variant 0: the arrays only, 1: a scalar field first, 2: a null field last
DimInput(variant, arrs) ==
    IF variant = 0 THEN Obj(DimFields(arrs))
    ELSE IF variant = 1 THEN Obj(<< <<<<"a">>, JInt(<<"0">>)>> >> \o DimFields(arrs))
    ELSE Obj(DimFields(arrs) \o << <<<<"a">>, Null>> >>)

DimOptionSets == [separator : Separators, fallback : {DefaultFallback}, selection_set : {None}]

(***************************************************************************)
(* The pruning family: {b: v, c: [elements]}, bare, under the key a, or    *)
(* under the key a in a root array, normalized with a selection set.       *)
(***************************************************************************)
PruneElems ==
    {Obj(<<>>),
     Obj(<< <<<<"d">>, Null>> >>),
     Obj(<< <<<<"d">>, Obj(<< <<<<"e">>, JStr(<<"s">>)>> >>)>> >>),
     Obj(<< <<<<"d">>, Obj(<< <<<<"e">>, Null>> >>)>> >>),
     Obj(<< <<<<"d">>, Null>>, <<<<"e">>, JStr(<<"s">>)>> >>)}

PruneCore(v, es, bFirst) ==
    IF bFirst THEN Obj(<< <<<<"b">>, v>>, <<<<"c">>, Arr(es)>> >>)
    ELSE Obj(<< <<<<"c">>, Arr(es)>>, <<<<"b">>, v>> >>)

\* wrap 0: bare, 1: under a, 2: under a in a root array
PruneInput(wrap, v, es, bFirst) ==
    IF wrap = 0 THEN PruneCore(v, es, bFirst)
    ELSE IF wrap = 1 THEN Obj(<< <<<<"a">>, PruneCore(v, es, bFirst)>> >>)
    ELSE Arr(<<Obj(<< <<<<"a">>, PruneCore(v, es, bFirst)>> >>)>>)

\* the path of the core object under a wrap
PrunePrefix(wrap) == IF wrap = 0 THEN <<>> ELSE <<<<"a">>>>

PruneSelectionSets ==
    {None}
    \cup UNION {{Some({pre \o <<<<"b">>>>, pre \o <<<<"c">>, <<"d">>, <<"e">>>>}),
                Some({pre \o <<<<"b">>>>, pre \o <<<<"c">>, <<"e">>>>}),
                Some({pre \o <<<<"c">>, <<"d">>, <<"e">>>>})} :
               pre \in {<<>>, <<<<"a">>>>}}

PruneOptionSets ==
    [separator : {DefaultSeparator}, fallback : {DefaultFallback},
     selection_set : PruneSelectionSets]

(***************************************************************************)
(* The naming family: objects of one or two fields, each a chain of up to  *)
(* MaxSegs keys down to a leaf, and root arrays of a scalar and such an    *)
(* object.  Keys may be empty, hold the separator, or equal the fallback.  *)
(***************************************************************************)
NameKeys == {<<"a">>, <<"b">>, <<"a", ".", "b">>, <<>>}

\* the routes of at most n keys
NameRoutes(n) == UNION {[1..k -> NameKeys] : k \in 1..n}

\* the value at the end of the keys ks after the first
RECURSIVE ChainValue(_)
ChainValue(ks) ==
    IF Len(ks) = 1 THEN JStr(<<"s">>)
    ELSE Obj(<< <<ks[2], ChainValue(Tail(ks))>> >>)

ChainField(ks) == <<ks[1], ChainValue(ks)>>

\* kind 0: null, 1: a scalar, 2: {r}, 3: {r, q}, 4: [scalar, {r}]
NameInput(kind, r, q) ==
    IF kind = 0 THEN Null
    ELSE IF kind = 1 THEN JStr(<<"s">>)
    ELSE IF kind = 2 THEN Obj(<<ChainField(r)>>)
    ELSE IF kind = 3 THEN Obj(<<ChainField(r), ChainField(q)>>)
    ELSE Arr(<<JStr(<<"s">>), Obj(<<ChainField(r)>>)>>)

NameOptionSets ==
    [separator : Separators,
     fallback : Fallbacks \cup {Some(<<"a", ".", "b">>)},
     selection_set : {None}]

(***************************************************************************)
(* The parts of the state a call does not use stay as they are here.       *)
(***************************************************************************)
NormalizerIdle ==
    /\ options = [separator |-> DefaultSeparator, fallback |-> DefaultFallback,
                  selection_set |-> None]
    /\ rows = NewContext.rows
    /\ paths = NewContext.paths

ExtractorIdle ==
    /\ query = [frames |-> <<>>, selection_set |-> {}]
    /\ captured = <<>>
    /\ frame_data = <<>>
    /\ extracted = None

BuilderIdle ==
    /\ frames = <<>>
    /\ current_frames = <<>>
    /\ frame_names = {}
    /\ selection_set = {}
    /\ calls = <<>>

RenamerIdle ==
    /\ short_separator = DefaultSeparator
    /\ columns = <<>>
    /\ n_added = 0
    /\ new_to_old = <<>>
    /\ old_to_new = <<>>

EngineIdle ==
    /\ objects = <<>>
    /\ n_called = 0
    /\ individual = [raised |-> FALSE, v |-> <<>>]
    /\ batch = None

VisitorIdle ==
    /\ stops = {}
    /\ events = <<>>

ExecutorIdle ==
    /\ column_names = [kind |-> "none"]
    /\ response = None
    /\ client_calls = 0
    /\ tables = <<>>
    /\ result = None

(***************************************************************************)
(* normalize as a state machine: the top-level walk runs one loop          *)
(* iteration per step.                                                     *)
(***************************************************************************)
Init ==
    /\ obj \in Inputs(MaxNodes)
    /\ options \in OptionSets
    /\ stack = Put(<<>>, <<>>, obj, FALSE)
    /\ rows = NewContext.rows
    /\ paths = NewContext.paths
    /\ pc = "walk"
    /\ ExtractorIdle /\ BuilderIdle /\ RenamerIdle /\ EngineIdle /\ VisitorIdle /\ ExecutorIdle

InitDim ==
    /\ \E ns \in DimShapes(MaxDims, MaxCells) :
          \E cells \in [1..Sum(ns) -> DimElems], variant \in 0..2 :
              obj = DimInput(variant, DimArrays(ns, cells))
    /\ options \in DimOptionSets
    /\ stack = Put(<<>>, <<>>, obj, FALSE)
    /\ rows = NewContext.rows
    /\ paths = NewContext.paths
    /\ pc = "walk"
    /\ ExtractorIdle /\ BuilderIdle /\ RenamerIdle /\ EngineIdle /\ VisitorIdle /\ ExecutorIdle

InitPrune ==
    /\ \E wrap \in 0..2, v \in {JStr(<<"s">>), Null}, bFirst \in BOOLEAN :
          \E es \in SeqsUpTo(PruneElems, MaxElems) :
              obj = PruneInput(wrap, v, es, bFirst)
    /\ options \in PruneOptionSets
    /\ stack = Put(<<>>, <<>>, obj, FALSE)
    /\ rows = NewContext.rows
    /\ paths = NewContext.paths
    /\ pc = "walk"
    /\ ExtractorIdle /\ BuilderIdle /\ RenamerIdle /\ EngineIdle /\ VisitorIdle /\ ExecutorIdle

InitNames ==
    /\ \E kind \in 0..4 :
          \E r \in NameRoutes(MaxSegs), q \in NameRoutes(MaxSegs) :
              /\ kind = 3 => r[1] # q[1]
              /\ obj = NameInput(kind, r, q)
    /\ options \in NameOptionSets
    /\ stack = Put(<<>>, <<>>, obj, FALSE)
    /\ rows = NewContext.rows
    /\ paths = NewContext.paths
    /\ pc = "walk"
    /\ ExtractorIdle /\ BuilderIdle /\ RenamerIdle /\ EngineIdle /\ VisitorIdle /\ ExecutorIdle

Top == Head(stack)

\* the loop iteration applied to the state
Iterate ==
    LET st == WalkStep(options, [stack |-> stack, ctx |-> [rows |-> rows, paths |-> paths]])
    IN /\ stack' = st.stack
       /\ rows' = st.ctx.rows
       /\ paths' = st.ctx.paths
       /\ UNCHANGED <<obj, options, pc, extractorVars, builderVars, renamerVars,
                      engineVars, visitorVars, executorVars>>

Walking == pc = "walk" /\ stack # <<>>

LeaveStep == Walking /\ Top.leave /\ Iterate
ScalarStep == Walking /\ ~Top.leave /\ IsScalarValue(Top.obj) /\ Iterate
NullStep == Walking /\ ~Top.leave /\ Top.obj = Null /\ Iterate
ObjectStep == Walking /\ ~Top.leave /\ IsObjectValue(Top.obj) /\ Iterate
ArrayStep == Walking /\ ~Top.leave /\ IsArrayValue(Top.obj) /\ Iterate

\* the loop ends and normalize returns result.rows
Return ==
    /\ pc = "walk"
    /\ stack = <<>>
    /\ pc' = "done"
    /\ UNCHANGED <<obj, options, stack, rows, paths, extractorVars, builderVars,
                   renamerVars, engineVars, visitorVars, executorVars>>

Next == LeaveStep \/ ScalarStep \/ NullStep \/ ObjectStep \/ ArrayStep \/ Return

Spec == Init /\ [][Next]_vars

SpecDim == InitDim /\ [][Next]_vars

SpecPrune == InitPrune /\ [][Next]_vars

SpecNames == InitNames /\ [][Next]_vars

TypeOK == pc \in {"walk", "done"} /\ Len(rows) >= 1

(***************************************************************************)
(* Vocabulary of the properties.                                           *)
(***************************************************************************)
Done == pc = "done"
NoSelection == ~TruthySet(options.selection_set)
Selected(path) == NoSelection \/ path \in options.selection_set.v

\* the walker is about to call enter_array on the top of the stack
EnteringArray == Walking /\ ~Top.leave /\ IsArrayValue(Top.obj)

\* the object o with its i-th field removed
ObjWithout(o, i) ==
    Obj([j \in 1..(Len(o.items) - 1) |-> IF j < i THEN o.items[j] ELSE o.items[j + 1]])

\* the indices of the non-null elements of an array, and the j-th of them
NonNullIndices(items) == {i \in 1..Len(items) : items[i] # Null}
NthNonNull(items, j) ==
    items[CHOOSE i \in NonNullIndices(items) :
              Cardinality({h \in NonNullIndices(items) : h <= i}) = j]

IsLeaf(o) == IsScalarValue(o) \/ o = Null

\* the paths of the scalar and null leaves of o, o being at path
RECURSIVE LeafPaths(_, _)
LeafPaths(path, o) ==
    IF IsLeaf(o) THEN {path}
    ELSE IF IsObjectValue(o)
    THEN UNION {LeafPaths(Append(path, o.items[i][1]), o.items[i][2]) : i \in 1..Len(o.items)}
    ELSE UNION {LeafPaths(path, o.items[i]) : i \in 1..Len(o.items)}

(***************************************************************************)
(* C2: an empty array contributes no cross-product factor: normalize of an *)
(* object with a field whose value is [] returns the rows of normalize of  *)
(* the object without that field, and normalize({a: s, b: []}) is exactly  *)
(* [{a: s}], never the empty list.                                         *)
(***************************************************************************)
C2_EmptyArrayNoFactor ==
    Done /\ IsObjectValue(obj) =>
        /\ \A i \in 1..Len(obj.items) :
              obj.items[i][2] = Arr(<<>>) =>
                  /\ rows = NormalizeRows(options, ObjWithout(obj, i))
                  /\ rows # <<>>
        /\ \A v \in Scalars :
              obj = Obj(<< <<<<"a">>, v>>, <<<<"b">>, Arr(<<>>)>> >>) /\ Selected(<<<<"a">>>>)
                  => rows = << << <<GenerateName(options, <<<<"a">>>>), v>> >> >>

C2_Witness ==
    /\ Done
    /\ obj = Obj(<< <<<<"a">>, JStr(<<"s">>)>>, <<<<"b">>, Arr(<<>>)>> >>)
    /\ rows = << << <<<<"a">>, JStr(<<"s">>)>> >> >>

(***************************************************************************)
(* C3: entering an array, a null element is skipped and contributes no     *)
(* row, every non-null element (the falsy scalars too) contributes its     *)
(* rows: an array of n non-null leaves multiplies the rows by n, each new  *)
(* row holding the value of its element, and an array of nulls only leaves *)
(* the rows as they are.                                                   *)
(***************************************************************************)
C3_Step ==
    EnteringArray =>
        LET items == Top.obj.items
            n == Cardinality(NonNullIndices(items))
            name == GenerateName(options, Top.path)
        IN /\ n = 0 => rows' = rows
           /\ n > 0 => Len(rows') >= Len(rows) * n
           /\ n > 0 /\ (\A i \in 1..Len(items) : IsLeaf(items[i])) =>
                 /\ Len(rows') = Len(rows) * n
                 /\ Selected(Top.path) =>
                       \A i \in 1..Len(rows), j \in 1..n :
                           /\ RowHas(rows'[(i - 1) * n + j], name)
                           /\ RowGet(rows'[(i - 1) * n + j], name) = NthNonNull(items, j)

C3_NullElementsSkipped == [][C3_Step]_vars

C3_Witness ==
    /\ Done
    /\ obj = Arr(<<JStr(<<"s">>), JBool(<<"F">>), Null>>)
    /\ NoSelection
    /\ Len(rows) = 2
    /\ RowGet(rows[2], GenerateName(options, <<>>)) = JBool(<<"F">>)

(***************************************************************************)
(* C10: null at the root and null in an array differ: normalize(null)      *)
(* without a selection set returns one row mapping the fallback key to     *)
(* null, normalize([null]) returns one row with no columns.                *)
(***************************************************************************)
FallbackKey == IF TruthyStr(options.fallback) THEN options.fallback.v ELSE <<>>

C10_NullRootAndNullElement ==
    Done =>
        /\ obj = Null /\ NoSelection => rows = << << <<FallbackKey, Null>> >> >>
        /\ obj = Arr(<<Null>>) => rows = << <<>> >>

C10_Witness == Done /\ obj = Null /\ rows = << << <<<<"?">>, Null>> >> >>

(***************************************************************************)
(* C5 as claimed: for any selection set supplied to normalize, also the    *)
(* empty one, every leaf written has its path in the set and every column  *)
(* of every row is the name of a path of the set.                          *)
(***************************************************************************)
ColumnsWithin(S) ==
    /\ paths \subseteq S
    /\ \A i \in 1..Len(rows) : \A n \in RowKeys(rows[i]) :
          \E p \in S : GenerateName(options, p) = n

C5_AnySelectionSet == options.selection_set.some => ColumnsWithin(options.selection_set.v)

(***************************************************************************)
(* C5 amended: for any non-empty selection set supplied to normalize, a    *)
(* scalar or null leaf is written only if its path is in the set, and      *)
(* every column of every row is the name of a path of the set.             *)
(***************************************************************************)
C5_NonEmptySelectionSet ==
    TruthySet(options.selection_set) => ColumnsWithin(options.selection_set.v)

C5_Witness ==
    /\ Done
    /\ obj = Obj(<< <<<<"a">>, JStr(<<"s">>)>>, <<<<"b">>, JInt(<<"0">>)>> >>)
    /\ options.selection_set = Some({<<<<"a">>>>})
    /\ rows = << << <<<<"a">>, JStr(<<"s">>)>> >> >>

(***************************************************************************)
(* C6 as claimed: entering an array whose row-group is empty leaves the    *)
(* rows-in-progress unchanged, both for an array with no elements and for  *)
(* an array all of whose elements have every leaf under them filtered out  *)
(* by the selection set.                                                   *)
(***************************************************************************)
\* the array on top has elements, none null, and the selection set filters
\* out every leaf under them
AllLeavesFiltered ==
    /\ TruthySet(options.selection_set)
    /\ Top.obj.items # <<>>
    /\ \A i \in 1..Len(Top.obj.items) : Top.obj.items[i] # Null
    /\ LeafPaths(Top.path, Top.obj) # {}
    /\ LeafPaths(Top.path, Top.obj) \cap options.selection_set.v = {}

C6_FilteredGroupNoOp ==
    [][EnteringArray /\ (Top.obj.items = <<>> \/ AllLeavesFiltered) => rows' = rows]_vars

(***************************************************************************)
(* C6 amended: entering an array whose row-group is empty leaves the       *)
(* rows-in-progress unchanged, and the row-group is empty when the array   *)
(* has no element or only null elements.  An array all of whose elements   *)
(* have every leaf filtered out by the selection set has a row-group of    *)
(* column-less rows, at least one per element: every row-in-progress keeps *)
(* its columns and is repeated once per row of the group.                  *)
(***************************************************************************)
C6_Step ==
    EnteringArray =>
        /\ NonNullIndices(Top.obj.items) = {} => rows' = rows
        /\ AllLeavesFiltered =>
              LET m == Len(rows') \div Len(rows)
              IN /\ m >= Len(Top.obj.items)
                 /\ Len(rows') = m * Len(rows)
                 /\ \A k \in 1..Len(rows') : rows'[k] = rows[((k - 1) \div m) + 1]

C6_EmptyGroupNoOp == [][C6_Step]_vars

C6_Witness ==
    /\ Done
    /\ obj = Obj(<< <<<<"b">>, Arr(<<JStr(<<"s">>), JStr(<<"s">>)>>)>> >>)
    /\ options.selection_set = Some({<<<<"a">>>>})
    /\ rows = << <<>>, <<>> >>

(***************************************************************************)
(* C7: the column of a leaf is the object keys on its route joined with    *)
(* the separator, array nesting adding no segment, and the fallback when   *)
(* the join is empty and a non-empty fallback is configured: a scalar root *)
(* gives the one row {fallback: value}, without a fallback the key "", and *)
(* {a: {b: v}} gives a.b, or a_b with the separator "_".                   *)
(***************************************************************************)
\* the keys and the separator of this family are one character long: the
\* joined name alternates them
JoinedName(route) ==
    [i \in 1..(2 * Len(route) - 1) |->
        IF i % 2 = 1 THEN route[(i + 1) \div 2][1] ELSE options.separator[1]]

ColumnName(route) ==
    IF route = <<>> THEN FallbackKey ELSE JoinedName(route)

C7_ColumnNames ==
    Done /\ NoSelection =>
        /\ \A i \in 1..Len(rows) : \A n \in RowKeys(rows[i]) :
              \E route \in LeafPaths(<<>>, obj) : n = ColumnName(route)
        /\ IsScalarValue(obj) => rows = << << <<FallbackKey, obj>> >> >>
        /\ \A k1, k2 \in Keys, v \in Scalars :
              /\ obj = Obj(<< <<k1, Obj(<< <<k2, v>> >>)>> >>)
                    => rows = << << <<k1 \o options.separator \o k2, v>> >> >>
              /\ obj = Obj(<< <<k1, Arr(<<Obj(<< <<k2, v>> >>)>>)>> >>)
                    => rows = << << <<k1 \o options.separator \o k2, v>> >> >>
              /\ obj = Arr(<<Arr(<<v>>)>>) => rows = << << <<FallbackKey, v>> >> >>

C7_Witness ==
    /\ Done
    /\ obj = Obj(<< <<<<"a">>, Obj(<< <<<<"b">>, JInt(<<"0">>)>> >>)>> >>)
    /\ options.separator = <<"_">>
    /\ rows = << << <<<<"a", "_", "b">>, JInt(<<"0">>)>> >> >>

(***************************************************************************)
(* C1: normalize of an object with several array-valued fields returns one *)
(* row for every combination of one row from each non-empty array's        *)
(* row-group, merged with the object's scalar columns, the array met first *)
(* varying slowest and the array met last varying fastest.                 *)
(***************************************************************************)
\* the columns of a row, as a set of (name, value) pairs
RowPairs(row) == {row[i] : i \in 1..Len(row)}

\* what an element e of the array at key k gives: its one row
ElemPairs(k, e) ==
    IF IsLeaf(e) THEN {<<k, e>>}
    ELSE {<<k \o options.separator \o e.items[i][1], e.items[i][2]>> : i \in 1..Len(e.items)}

\* the fields of obj that are scalar or null, and the indices of those that
\* are arrays with a non-null element, in key order
ScalarPairs == {obj.items[i] : i \in {j \in 1..Len(obj.items) : IsLeaf(obj.items[j][2])}}

IsDim(i) == IsArrayValue(obj.items[i][2]) /\ NonNullIndices(obj.items[i][2].items) # {}

DimIndices == SelectSeq([i \in 1..Len(obj.items) |-> i], IsDim)

DimSize(k) == Cardinality(NonNullIndices(obj.items[DimIndices[k]][2].items))

\* the number of combinations of the dimensions after the k-th
RECURSIVE Stride(_)
Stride(k) == IF k >= Len(DimIndices) THEN 1 ELSE DimSize(k + 1) * Stride(k + 1)

\* the element of the k-th dimension that the r-th combination takes
Digit(r, k) == (((r - 1) \div Stride(k)) % DimSize(k)) + 1

Combination(r) ==
    ScalarPairs \cup
    UNION {ElemPairs(obj.items[DimIndices[k]][1],
                     NthNonNull(obj.items[DimIndices[k]][2].items, Digit(r, k))) :
           k \in 1..Len(DimIndices)}

C1_CrossProductOrder ==
    Done =>
        /\ Len(rows) = Stride(0)
        /\ \A r \in 1..Len(rows) :
              /\ RowPairs(rows[r]) = Combination(r)
              /\ Len(rows[r]) = Cardinality(Combination(r))

C1_Witness ==
    /\ Done
    /\ obj = Obj(<< <<<<"a">>, JInt(<<"0">>)>>,
                    <<<<"d">>, Arr(<<Obj(<< <<<<"c">>, JInt(<<"0">>)>> >>),
                                     Obj(<< <<<<"e">>, JStr(<<"s">>)>>,
                                            <<<<"c">>, JBool(<<"F">>)>> >>)>>)>>,
                    <<<<"d", "d">>, Arr(<<Obj(<< <<<<"e">>, JStr(<<"s">>)>>,
                                                 <<<<"c">>, JBool(<<"F">>)>> >>),
                                          Obj(<< <<<<"c">>, JInt(<<"0">>)>> >>)>>)>> >>)
    /\ options.separator = <<".">>
    /\ Len(rows) = 4
    /\ RowPairs(rows[2]) = {<<<<"a">>, JInt(<<"0">>)>>,
                            <<<<"d", ".", "c">>, JInt(<<"0">>)>>,
                            <<<<"d", "d", ".", "c">>, JInt(<<"0">>)>>}
    /\ RowPairs(rows[3]) = {<<<<"a">>, JInt(<<"0">>)>>,
                            <<<<"d", ".", "e">>, JStr(<<"s">>)>>,
                            <<<<"d", ".", "c">>, JBool(<<"F">>)>>,
                            <<<<"d", "d", ".", "e">>, JStr(<<"s">>)>>,
                            <<<<"d", "d", ".", "c">>, JBool(<<"F">>)>>}

(***************************************************************************)
(* C8: array elements are normalized independently, with no schema         *)
(* unification: the row of an element holds the columns of the leaves of   *)
(* that element and of the enclosing object only, never a null-filled      *)
(* column for a key of a sibling element.                                  *)
(***************************************************************************)
ElemNames(k, e) == {p[1] : p \in ElemPairs(k, e)}

C8_NoSchemaUnification ==
    Done /\ Len(DimIndices) = 1 =>
        LET k == obj.items[DimIndices[1]][1]
            items == obj.items[DimIndices[1]][2].items
        IN /\ Len(rows) = DimSize(1)
           /\ \A j \in 1..Len(rows) :
                 /\ RowKeys(rows[j]) =
                       {p[1] : p \in ScalarPairs} \cup ElemNames(k, NthNonNull(items, j))
                 /\ \A h \in 1..Len(rows) :
                       \A n \in ElemNames(k, NthNonNull(items, h)) \ ElemNames(k, NthNonNull(items, j)) :
                           ~RowHas(rows[j], n)

C8_Witness ==
    /\ Done
    /\ obj = Obj(<< <<<<"d">>, Arr(<<Obj(<< <<<<"c">>, JInt(<<"0">>)>> >>),
                                     Obj(<< <<<<"e">>, JStr(<<"s">>)>>,
                                            <<<<"c">>, JBool(<<"F">>)>> >>)>>)>> >>)
    /\ options.separator = <<".">>
    /\ rows = << << <<<<"d", ".", "c">>, JInt(<<"0">>)>> >>,
                 << <<<<"d", ".", "e">>, JStr(<<"s">>)>>, <<<<"d", ".", "c">>, JBool(<<"F">>)>> >> >>

(***************************************************************************)
(* C4: with a selection set, an array element whose selected leaf is       *)
(* missing (its branch is null or absent) still produces its row, the row  *)
(* lacks that column only: no null is written for the unselected null, the *)
(* column selected elsewhere (b) is on the row, and the rows follow the    *)
(* order of the elements.                                                  *)
(***************************************************************************)
\* the input, read back: how it is wrapped, its core {b, c}, and the fields
PruneWrap ==
    IF IsArrayValue(obj) THEN 2
    ELSE IF obj.items[1][1] = <<"a">> THEN 1
    ELSE 0

PruneCoreOf ==
    IF PruneWrap = 2 THEN obj.items[1].items[1][2]
    ELSE IF PruneWrap = 1 THEN obj.items[1][2]
    ELSE obj

FieldOf(o, key) == o.items[CHOOSE i \in 1..Len(o.items) : o.items[i][1] = key][2]

\* the element has a leaf at d.e
HasLeafDE(e) ==
    /\ Len(e.items) = 1
    /\ IsObjectValue(e.items[1][2])

LeafDE(e) == e.items[1][2].items[1][2]

C4_MissingLeafKeepsRow ==
    LET pre == PrunePrefix(PruneWrap)
        v == FieldOf(PruneCoreOf, <<"b">>)
        es == FieldOf(PruneCoreOf, <<"c">>).items
        nameB == IF pre = <<>> THEN <<"b">> ELSE <<"a", ".", "b">>
        nameD == IF pre = <<>> THEN <<"c", ".", "d">> ELSE <<"a", ".", "c", ".", "d">>
        nameDE == nameD \o <<".", "e">>
    IN /\ Done
       /\ es # <<>>
       /\ options.selection_set =
              Some({pre \o <<<<"b">>>>, pre \o <<<<"c">>, <<"d">>, <<"e">>>>})
       => /\ Len(rows) = Len(es)
          /\ \A i \in 1..Len(es) :
                /\ RowHas(rows[i], nameB) /\ RowGet(rows[i], nameB) = v
                /\ ~RowHas(rows[i], nameD)
                /\ RowKeys(rows[i]) \subseteq {nameB, nameDE}
                /\ RowHas(rows[i], nameDE) <=> HasLeafDE(es[i])
                /\ HasLeafDE(es[i]) => RowGet(rows[i], nameDE) = LeafDE(es[i])

C4_Witness ==
    /\ Done
    /\ obj = PruneInput(2, JStr(<<"s">>),
                         <<Obj(<< <<<<"d">>, Null>> >>),
                           Obj(<< <<<<"d">>, Obj(<< <<<<"e">>, JStr(<<"s">>)>> >>)>> >>)>>, TRUE)
    /\ options.selection_set =
          Some({<<<<"a">>, <<"b">>>>, <<<<"a">>, <<"c">>, <<"d">>, <<"e">>>>})
    /\ rows = << << <<<<"a", ".", "b">>, JStr(<<"s">>)>> >>,
                 << <<<<"a", ".", "b">>, JStr(<<"s">>)>>,
                    <<<<"a", ".", "c", ".", "d", ".", "e">>, JStr(<<"s">>)>> >> >>

(***************************************************************************)
(* C9 as claimed: within one normalize call two leaves at different paths  *)
(* never get the same column name, so no leaf overwrites another leaf's    *)
(* value in a row.                                                         *)
(***************************************************************************)
NamesInjective ==
    \A p, q \in paths : p # q => GenerateName(options, p) # GenerateName(options, q)

C9_NamesInjective == Done => NamesInjective

(***************************************************************************)
(* C9 amended: two leaves at different paths get different column names    *)
(* provided no object key is empty, holds a character of the separator or  *)
(* equals the fallback, and the fallback holds no character of the         *)
(* separator; a row of an input without arrays then has one column per     *)
(* leaf.  Without the proviso two leaves can share a column.               *)
(***************************************************************************)
Chars(str) == {str[i] : i \in 1..Len(str)}

CleanKey(k) ==
    /\ k # <<>>
    /\ Chars(k) \cap Chars(options.separator) = {}
    /\ options.fallback.some => k # options.fallback.v

CleanNames ==
    /\ \A p \in LeafPaths(<<>>, obj) : \A i \in 1..Len(p) : CleanKey(p[i])
    /\ options.fallback.some => Chars(options.fallback.v) \cap Chars(options.separator) = {}

C9_CleanNamesInjective ==
    Done /\ CleanNames =>
        /\ NamesInjective
        /\ IsObjectValue(obj) => Len(rows[1]) = Cardinality(LeafPaths(<<>>, obj))

C9_Witness ==
    /\ Done
    /\ obj = Obj(<< <<<<"a">>, Obj(<< <<<<"b">>, JStr(<<"s">>)>> >>)>>,
                    <<<<"b">>, JStr(<<"s">>)>> >>)
    /\ options.separator = <<".">>
    /\ CleanNames
    /\ RowKeys(rows[1]) = {<<"a", ".", "b">>, <<"b">>}

(***************************************************************************)
(* ParsedQuery (_parser.py:11-38).  A frame is its path and its name; the  *)
(* name is the last segment of the path (begin_frame).                     *)
(***************************************************************************)
FrameInfo(path, name, selected) == [path |-> path, name |-> name, selection_set |-> selected]

ParsedQuery(fs, selected) == [frames |-> fs, selection_set |-> selected]

\* ParsedQuery.is_implicit_mode
IsImplicitMode(q) == q.frames = <<>>

\* is_frame_at that also matches a path below a frame's path
IsFrameAtPrefix(q, path) ==
    \E i \in 1..Len(q.frames) :
        /\ Len(q.frames[i].path) <= Len(path)
        /\ SubSeq(path, 1, Len(q.frames[i].path)) = q.frames[i].path

\* ParsedQuery.is_frame_at
IsFrameAt(q, path) == \E i \in 1..Len(q.frames) : q.frames[i].path = path

\* has_nested_frame that never finds one
HasNestedFrameNever(q, path) == FALSE

\* ParsedQuery.has_nested_frame
HasNestedFrame(q, path) ==
    LET length == Len(path)
    IN \E i \in 1..Len(q.frames) :
          /\ Len(q.frames[i].path) > length
          /\ SubSeq(q.frames[i].path, 1, length) = path

(***************************************************************************)
(* FrameExtractorContext and FrameExtractor (_execution.py:96-141).  An    *)
(* extractor state x is [captured, frame_data], both Python dicts: their   *)
(* (key, value) items in insertion order.                                  *)
(*                                                                         *)
(* leave compares the captured node with `is`.  While a node is captured   *)
(* at a path, the other nodes the walker meets at that path are the        *)
(* elements below it, and a value never equals a value it contains, so     *)
(* equality of values decides as identity does.                            *)
(***************************************************************************)
\* del d[key]
DictDel(d, key) == SelectSeq(d, LAMBDA item : item[1] # key)

\* d[key] of a defaultdict(list)
ListGet(d, key) == IF RowHas(d, key) THEN RowGet(d, key) ELSE <<>>

NewExtractor == [captured |-> <<>>, frame_data |-> <<>>]

\* FrameExtractorContext.add_data
AddData(fd, path, value) ==
    LET name == path[Len(path)]
    IN RowSetItem(fd, name, Append(ListGet(fd, name), value))

\* FrameExtractor._enter: the state it leaves and what it returns
ExtractorEnter(q, x, path, value) ==
    IF ~RowHas(x.captured, path) /\ IsFrameAt(q, path)
    THEN LET added == [x EXCEPT !.frame_data = AddData(@, path, value)]
         IN IF ~HasNestedFrame(q, path)
            THEN [x |-> added, action |-> STOP]
            ELSE [x |-> [added EXCEPT !.captured = RowSetItem(@, path, value)],
                  action |-> CONTINUE]
    ELSE [x |-> x, action |-> CONTINUE]

\* leave that clears nothing
ExtractorLeaveKeeps(x, path, value) == x

\* FrameExtractor.leave
ExtractorLeave(x, path, value) ==
    IF RowHas(x.captured, path) /\ RowGet(x.captured, path) = value
    THEN [x EXCEPT !.captured = DictDel(@, path)]
    ELSE x

\* FrameExtractor.on_scalar
ExtractorOnScalar(q, x, path, value) ==
    ExtractorLeave(ExtractorEnter(q, x, path, value).x, path, value)

\* on_null that checks the path as on_scalar does
ExtractorOnNullChecked(q, x, path) == ExtractorOnScalar(q, x, path, Null)

\* JsonVisitor.on_null, which FrameExtractor does not override
ExtractorOnNull(q, x, path) == x

\* one iteration of `while stack` of the walk that visit() runs for the
\* FrameExtractor
ExtractStep(q, st) ==
    LET top == Head(st.stack)
        rest == Tail(st.stack)
    IN IF top.leave
       THEN [stack |-> rest, x |-> ExtractorLeave(st.x, top.path, top.obj)]
       ELSE IF IsScalarValue(top.obj)
       THEN [stack |-> rest, x |-> ExtractorOnScalar(q, st.x, top.path, top.obj)]
       ELSE IF top.obj = Null
       THEN [stack |-> rest, x |-> ExtractorOnNull(q, st.x, top.path)]
       ELSE LET r == ExtractorEnter(q, st.x, top.path, top.obj)
                entered == Put(rest, top.path, top.obj, TRUE)
            IN [stack |-> IF r.action = STOP THEN rest
                          ELSE IF IsObjectValue(top.obj)
                          THEN PutFields(entered, top.path, top.obj.items)
                          ELSE PutElements(entered, top.path, top.obj.items),
                x |-> r.x]

\* found.get(name, EMPTY)
FoundGet(found, name) == ListGet(found, name)

\* {f.name: found.get(f.name, EMPTY) for f in query.frames}
RECURSIVE FramesResult(_, _)
FramesResult(fs, found) ==
    IF fs = <<>> THEN <<>>
    ELSE LET before == FramesResult(SubSeq(fs, 1, Len(fs) - 1), found)
             f == fs[Len(fs)]
         IN RowSetItem(before, f.name, FoundGet(found, f.name))

\* the implicit-mode result of _extract
ImplicitResult(data) == << <<<<"d", "e", "f", "a", "u", "l", "t">>, <<data>>>> >>

(***************************************************************************)
(* The inputs of _extract.  The response data is an object whose field a   *)
(* holds an item or an array of at most MaxElems items, with or without a  *)
(* field b after it.  A query declares no frame, one frame, or two frames, *)
(* at paths of fields of the response or at a path the response lacks; the *)
(* parser meets an outer frame before a frame below it.                    *)
(***************************************************************************)
\* the FrameInfo begin_frame makes of a path
FrameOf(path) == FrameInfo(path, path[Len(path)], {})

IsProperPrefix(p, q) == Len(p) < Len(q) /\ SubSeq(q, 1, Len(p)) = p

\* the paths of the fields of a value, below the path it lies at
RECURSIVE FieldPaths(_, _)
FieldPaths(path, o) ==
    IF IsObjectValue(o)
    THEN UNION {{PathAdd(path, o.items[i][1])}
                \cup FieldPaths(PathAdd(path, o.items[i][1]), o.items[i][2]) :
                i \in 1..Len(o.items)}
    ELSE IF IsArrayValue(o)
    THEN UNION {FieldPaths(path, o.items[i]) : i \in 1..Len(o.items)}
    ELSE {}

\* a path no response of the family has
AbsentPath == <<<<"b">>, <<"b">>>>

FramePaths(data) == FieldPaths(<<>>, data) \cup {AbsentPath}

Queries(ps) ==
    {ParsedQuery(<<>>, {})}
    \cup {ParsedQuery(<<FrameOf(p)>>, {}) : p \in ps}
    \cup {ParsedQuery(<<FrameOf(pq[1]), FrameOf(pq[2])>>, {}) :
             pq \in {r \in ps \X ps : r[1] # r[2] /\ ~IsProperPrefix(r[2], r[1])}}

FrameItems ==
    {Null, JInt(<<"0">>),
     Obj(<< <<<<"b">>, JStr(<<"s">>)>> >>),
     Obj(<< <<<<"b">>, Null>> >>),
     Obj(<< <<<<"a">>, JBool(<<"F">>)>>, <<<<"b">>, Obj(<< <<<<"a">>, JInt(<<"0">>)>> >>)>> >>),
     Arr(<< Obj(<< <<<<"b">>, JInt(<<"0">>)>> >>) >>)}

FrameTops(n) == FrameItems \cup {Arr(items) : items \in SeqsUpTo(FrameItems, n)}

\* tail 0: the field a only, 1: a field b after it
FrameData(top, tail) ==
    IF tail = 0 THEN Obj(<< <<<<"a">>, top>> >>)
    ELSE Obj(<< <<<<"a">>, top>>,
                <<<<"b">>, Obj(<< <<<<"a">>, JStr(<<"s">>)>> >>)>> >>)

(***************************************************************************)
(* Executor._extract as a state machine: the walk that visit() runs for    *)
(* the FrameExtractor, one loop iteration per step.                        *)
(***************************************************************************)
InitExtract ==
    /\ \E top \in FrameTops(MaxElems), tail \in 0..1 : obj = FrameData(top, tail)
    /\ query \in Queries(FramePaths(obj))
    /\ stack = <<>>
    /\ captured = NewExtractor.captured
    /\ frame_data = NewExtractor.frame_data
    /\ extracted = None
    /\ pc = "extract"
    /\ NormalizerIdle /\ BuilderIdle /\ RenamerIdle /\ EngineIdle /\ VisitorIdle /\ ExecutorIdle

\* `if query.is_implicit_mode: return {"default": [response.data]}`
ExtractImplicit ==
    /\ pc = "extract"
    /\ IsImplicitMode(query)
    /\ extracted' = Some(ImplicitResult(obj))
    /\ pc' = "extracted"
    /\ UNCHANGED <<obj, stack, query, captured, frame_data,
                   normalizerVars, builderVars, renamerVars, engineVars, visitorVars, executorVars>>

\* visit(response.data, FrameExtractor(context)): the walker puts the root
ExtractVisit ==
    /\ pc = "extract"
    /\ ~IsImplicitMode(query)
    /\ stack' = Put(<<>>, <<>>, obj, FALSE)
    /\ pc' = "visit"
    /\ UNCHANGED <<obj, query, captured, frame_data, extracted,
                   normalizerVars, builderVars, renamerVars, engineVars, visitorVars, executorVars>>

Visiting == pc = "visit" /\ stack # <<>>

\* the loop iteration applied to the state
ExtractIterate ==
    LET st == ExtractStep(query, [stack |-> stack,
                                  x |-> [captured |-> captured, frame_data |-> frame_data]])
    IN /\ stack' = st.stack
       /\ captured' = st.x.captured
       /\ frame_data' = st.x.frame_data
       /\ UNCHANGED <<obj, pc, query, extracted, normalizerVars, builderVars,
                      renamerVars, engineVars, visitorVars, executorVars>>

ExtractLeave == Visiting /\ Top.leave /\ ExtractIterate
ExtractScalar == Visiting /\ ~Top.leave /\ IsScalarValue(Top.obj) /\ ExtractIterate
ExtractNull == Visiting /\ ~Top.leave /\ Top.obj = Null /\ ExtractIterate
ExtractObject == Visiting /\ ~Top.leave /\ IsObjectValue(Top.obj) /\ ExtractIterate
ExtractArray == Visiting /\ ~Top.leave /\ IsArrayValue(Top.obj) /\ ExtractIterate

\* the walk ends and _extract returns the list of every frame of the query
ExtractReturn ==
    /\ pc = "visit"
    /\ stack = <<>>
    /\ extracted' = Some(FramesResult(query.frames, frame_data))
    /\ pc' = "extracted"
    /\ UNCHANGED <<obj, stack, query, captured, frame_data,
                   normalizerVars, builderVars, renamerVars, engineVars, visitorVars, executorVars>>

NextExtract ==
    \/ ExtractImplicit \/ ExtractVisit
    \/ ExtractLeave \/ ExtractScalar \/ ExtractNull \/ ExtractObject \/ ExtractArray
    \/ ExtractReturn

SpecExtract == InitExtract /\ [][NextExtract]_vars

Extracted == pc = "extracted"

ExtractTypeOK ==
    /\ pc \in {"extract", "visit", "extracted"}
    /\ extracted.some <=> Extracted

(***************************************************************************)
(* Vocabulary of the extraction properties.  A node of the response tree   *)
(* is named by its position: the indices of the children on the way down   *)
(* from the root.                                                          *)
(***************************************************************************)
Children(o) ==
    IF IsObjectValue(o) THEN [i \in 1..Len(o.items) |-> o.items[i][2]]
    ELSE IF IsArrayValue(o) THEN o.items
    ELSE <<>>

RECURSIVE NodeAt(_, _)
NodeAt(o, pos) == IF pos = <<>> THEN o ELSE NodeAt(Children(o)[Head(pos)], Tail(pos))

\* the path the walker gives the node: a field adds its key, an element nothing
RECURSIVE PathAt(_, _)
PathAt(o, pos) ==
    IF pos = <<>> THEN <<>>
    ELSE (IF IsObjectValue(o) THEN <<o.items[Head(pos)][1]>> ELSE <<>>)
         \o PathAt(Children(o)[Head(pos)], Tail(pos))

\* the positions of the nodes of o in document order
RECURSIVE PreOrder(_)
RECURSIVE PreOrderFrom(_, _)
PreOrderFrom(o, i) ==
    IF i > Len(Children(o)) THEN <<>>
    ELSE LET below == PreOrder(Children(o)[i])
         IN [k \in 1..Len(below) |-> <<i>> \o below[k]] \o PreOrderFrom(o, i + 1)

PreOrder(o) == << <<>> >> \o PreOrderFrom(o, 1)

Front(pos) == SubSeq(pos, 1, Len(pos) - 1)

Range(seq) == {seq[i] : i \in 1..Len(seq)}

\* the node at pos is an occurrence of path: it lies at the path, is not
\* null, and is not an element of an array that lies at the path itself
IsOccurrence(path, pos) ==
    /\ PathAt(obj, pos) = path
    /\ NodeAt(obj, pos) # Null
    /\ pos # <<>> => PathAt(obj, Front(pos)) # path

\* the occurrences of a path, in document order
Occurrences(path) == SelectSeq(PreOrder(obj), LAMBDA pos : IsOccurrence(path, pos))

OccurrenceValues(path) ==
    LET occ == Occurrences(path) IN [i \in 1..Len(occ) |-> NodeAt(obj, occ[i])]

\* the list _extract returned under a name
ExtractedList(name) == RowGet(extracted.v, name)

(***************************************************************************)
(* C11: when a query declares an outer frame and a frame below it, one     *)
(* extraction walk captures both: every occurrence of the outer path is in *)
(* the outer frame's list, whole, so that the inner frame's sub-tree is    *)
(* still found in it unchanged, and every occurrence of the inner path,    *)
(* also below the outer frame's node, is in the inner frame's list.        *)
(***************************************************************************)
C11_NestedFramesBothCaptured ==
    /\ Extracted
    /\ Len(query.frames) = 2
    /\ IsProperPrefix(query.frames[1].path, query.frames[2].path)
    => LET outer == query.frames[1]
           inner == query.frames[2]
       IN /\ \A po \in Range(Occurrences(outer.path)) :
                \E i \in 1..Len(ExtractedList(outer.name)) :
                    LET got == ExtractedList(outer.name)[i]
                    IN /\ got = NodeAt(obj, po)
                       /\ \A pi \in Range(Occurrences(inner.path)) :
                             SubSeq(pi, 1, Len(po)) = po =>
                                 NodeAt(got, SubSeq(pi, Len(po) + 1, Len(pi))) = NodeAt(obj, pi)
          /\ \A pi \in Range(Occurrences(inner.path)) :
                NodeAt(obj, pi) \in Range(ExtractedList(inner.name))
          /\ outer.name # inner.name =>
                /\ ExtractedList(outer.name) = OccurrenceValues(outer.path)
                /\ ExtractedList(inner.name) = OccurrenceValues(inner.path)

C11_Witness ==
    /\ Extracted
    /\ query.frames = <<FrameOf(<<<<"a">>>>), FrameOf(<<<<"a">>, <<"b">>>>)>>
    /\ obj = FrameData(Arr(<<Obj(<< <<<<"b">>, JStr(<<"s">>)>> >>),
                             Obj(<< <<<<"a">>, JBool(<<"F">>)>>,
                                    <<<<"b">>, Obj(<< <<<<"a">>, JInt(<<"0">>)>> >>)>> >>)>>), 0)
    /\ ExtractedList(<<"a">>) = <<obj.items[1][2]>>
    /\ ExtractedList(<<"b">>) = <<JStr(<<"s">>), Obj(<< <<<<"a">>, JInt(<<"0">>)>> >>)>>

(***************************************************************************)
(* C12: a step of the walk appends to a frame's list only when the path of *)
(* the node it visits equals a declared frame path, never at a proper      *)
(* prefix or a proper extension of one; and when no frame is declared      *)
(* strictly below that path, the step puts nothing on the stack, so that   *)
(* no node beneath the captured node is visited.                           *)
(***************************************************************************)
CapturesNow == frame_data' # frame_data

C12_Step ==
    Visiting /\ ~Top.leave =>
        /\ CapturesNow => \E i \in 1..Len(query.frames) : query.frames[i].path = Top.path
        /\ /\ CapturesNow
           /\ ~\E i \in 1..Len(query.frames) : IsProperPrefix(Top.path, query.frames[i].path)
           => stack' = Tail(stack)

C12_ExactPathAndStop == [][C12_Step]_vars

C12_Witness ==
    /\ Extracted
    /\ query.frames = <<FrameOf(<<<<"a">>>>), FrameOf(<<<<"a">>, <<"b">>>>)>>
    /\ obj = FrameData(Obj(<< <<<<"a">>, JBool(<<"F">>)>>,
                               <<<<"b">>, Obj(<< <<<<"a">>, JInt(<<"0">>)>> >>)>> >>), 0)
    /\ frame_data = << <<<<"a">>, <<obj.items[1][2]>>>>,
                       <<<<"b">>, <<Obj(<< <<<<"a">>, JInt(<<"0">>)>> >>)>>>> >>

(***************************************************************************)
(* C13: in one extraction walk no node is captured twice and every         *)
(* non-null occurrence of a frame's path is captured exactly once, in      *)
(* document order: the list kept under a frame's name holds the            *)
(* occurrences of the paths of the frames of that name, each once.  An     *)
(* array at the path of a frame with a nested frame is one occurrence, its *)
(* elements are none; a field met once per element of an enclosing array   *)
(* is an occurrence each time.                                             *)
(***************************************************************************)
\* the occurrences of the paths of the frames called name, in document order
OccurrencesOfName(name) ==
    SelectSeq(PreOrder(obj),
              LAMBDA pos : \E i \in 1..Len(query.frames) :
                              /\ query.frames[i].name = name
                              /\ IsOccurrence(query.frames[i].path, pos))

C13_EachOccurrenceOnce ==
    pc \in {"visit", "extracted"} /\ stack = <<>> =>
        \A i \in 1..Len(query.frames) :
            LET occ == OccurrencesOfName(query.frames[i].name)
            IN ListGet(frame_data, query.frames[i].name)
                   = [k \in 1..Len(occ) |-> NodeAt(obj, occ[k])]

\* the frame a.b, which has the frame a.b.a below it, is met once in each of
\* the two elements of the array at a
C13_Witness ==
    LET item == Obj(<< <<<<"a">>, JBool(<<"F">>)>>,
                       <<<<"b">>, Obj(<< <<<<"a">>, JInt(<<"0">>)>> >>)>> >>)
    IN /\ Extracted
       /\ query.frames = <<FrameOf(<<<<"a">>, <<"b">>>>),
                           FrameOf(<<<<"a">>, <<"b">>, <<"a">>>>)>>
       /\ obj = FrameData(Arr(<<item, item>>), 0)
       /\ ExtractedList(<<"b">>) = <<item.items[2][2], item.items[2][2]>>
       /\ ExtractedList(<<"a">>) = <<JInt(<<"0">>), JInt(<<"0">>)>>
       /\ captured = <<>>

(***************************************************************************)
(* C14 as claimed: the frame-path check is applied to leaves as well: a    *)
(* scalar leaf at a frame's path is appended to that frame's list, and a   *)
(* null leaf at a frame's path is appended to that frame's list too.       *)
(***************************************************************************)
\* the walker is about to visit a leaf that lies at a frame's path, with
\* nothing captured at that path
AtFrameLeaf ==
    /\ Visiting
    /\ ~Top.leave
    /\ IsLeaf(Top.obj)
    /\ \E i \in 1..Len(query.frames) : query.frames[i].path = Top.path
    /\ ~RowHas(captured, Top.path)

AppendsTop ==
    LET name == Top.path[Len(Top.path)]
    IN frame_data' = RowSetItem(frame_data, name, Append(ListGet(frame_data, name), Top.obj))

C14_LeavesCaptured == [][AtFrameLeaf => AppendsTop]_vars

(***************************************************************************)
(* C14 as amended: a scalar leaf at a frame's path, where nothing is       *)
(* captured at that path, is appended to the list kept under the frame's   *)
(* name; a null leaf at a frame's path is not: the step that visits it     *)
(* leaves the lists and the bookkeeping as they are.                       *)
(***************************************************************************)
C14_Step ==
    AtFrameLeaf =>
        /\ IsScalarValue(Top.obj) => AppendsTop
        /\ Top.obj = Null => frame_data' = frame_data /\ captured' = captured

C14_ScalarLeavesCaptured == [][C14_Step]_vars

C14_Witness ==
    /\ Extracted
    /\ query.frames = <<FrameOf(<<<<"a">>, <<"b">>>>)>>
    /\ obj = FrameData(Arr(<<Obj(<< <<<<"b">>, JStr(<<"s">>)>> >>),
                             Obj(<< <<<<"b">>, Null>> >>)>>), 0)
    /\ frame_data = << <<<<"b">>, <<JStr(<<"s">>)>>>> >>

(***************************************************************************)
(* Executor._normalize (_execution.py:71-80): every captured value of a    *)
(* frame is normalized with the frame's name as fallback, and the rows are *)
(* chained; the frames keep the order of the extraction result.            *)
(***************************************************************************)
\* _normalize with the default fallback for every frame
ExecutorNormalizeDefaultFallback(sep, frame_lists) ==
    [i \in 1..Len(frame_lists) |->
        LET opts == [separator |-> sep, fallback |-> DefaultFallback, selection_set |-> None]
        IN <<frame_lists[i][1],
             Chain([k \in 1..Len(frame_lists[i][2]) |->
                       NormalizeRows(opts, frame_lists[i][2][k])])>>]

\* Executor._normalize: the rows given to the library for every frame
ExecutorNormalize(sep, frame_lists) ==
    [i \in 1..Len(frame_lists) |->
        LET name == frame_lists[i][1]
            data == frame_lists[i][2]
            opts == [separator |-> sep, fallback |-> Some(name), selection_set |-> None]
        IN <<name, Chain([k \in 1..Len(data) |-> NormalizeRows(opts, data[k])])>>]

\* the keys of a dict, in the order its iteration gives them
KeysInOrder(d) == [i \in 1..Len(d) |-> d[i][1]]

FrameNames == [i \in 1..Len(query.frames) |-> query.frames[i].name]

(***************************************************************************)
(* C15: for a query with at least one frame the extraction result has one  *)
(* entry for every declared frame, in the order of declaration, a frame    *)
(* with no captured node maps to an empty list, and the tables built from  *)
(* the result keep that order.                                             *)
(***************************************************************************)
C15_EntryPerFrameInOrder ==
    Extracted /\ ~IsImplicitMode(query) =>
        /\ KeysInOrder(extracted.v) = FrameNames
        /\ \A i \in 1..Len(query.frames) :
              Occurrences(query.frames[i].path) = <<>> =>
                  /\ RowHas(extracted.v, query.frames[i].name)
                  /\ ExtractedList(query.frames[i].name) = <<>>
        /\ KeysInOrder(ExecutorNormalize(DefaultSeparator, extracted.v)) = FrameNames

\* the same, for the queries whose frames have different names
UniqueNames == \A i, j \in 1..Len(query.frames) : i # j => FrameNames[i] # FrameNames[j]

C15_GivenUniqueNames == UniqueNames => C15_EntryPerFrameInOrder

(***************************************************************************)
(* C16: for every declared frame f, every value in the list returned for   *)
(* f's name is a node of the response tree located at f's path; a node     *)
(* captured at another frame's path is never in f's list.                  *)
(***************************************************************************)
ValuesAt(path) == {NodeAt(obj, pos) : pos \in {q \in Range(PreOrder(obj)) : PathAt(obj, q) = path}}

C16_ListHoldsNodesOfItsPath ==
    Extracted /\ ~IsImplicitMode(query) =>
        \A i \in 1..Len(query.frames) :
            Range(ExtractedList(query.frames[i].name)) \subseteq ValuesAt(query.frames[i].path)

C16_GivenUniqueNames == UniqueNames => C16_ListHoldsNodesOfItsPath

(***************************************************************************)
(* ParsedQueryBuilder (_parser.py:41-96).  frames holds the                *)
(* FrameInfoBuilders in the order they were added; current_frames is the   *)
(* deque of the open ones, leftmost first, as indices into frames, since   *)
(* both hold the same objects.  b is [frames, current_frames, frame_names, *)
(* selection_set]; a call returns [b, raised].                             *)
(***************************************************************************)
NewBuilder == [frames |-> <<>>, current_frames |-> <<>>, frame_names |-> {}, selection_set |-> {}]

\* FrameInfoBuilder.__init__
FrameInfoBuilder(path, name) == FrameInfo(path, name, {})

\* the assertion of FrameInfoBuilder.add_field
AddFieldAllowed(frame, path) ==
    SubSeq(path, 1, IF Len(frame.path) < Len(path) THEN Len(frame.path) ELSE Len(path))
        = frame.path

\* FrameInfoBuilder.add_field
AddField(frame, path) ==
    [frame EXCEPT !.selection_set = @ \cup {SubSeq(path, Len(frame.path) + 1, Len(path))}]

\* ParsedQueryBuilder.add_path
BuilderAddPath(b, path) ==
    IF \E k \in Range(b.current_frames) : ~AddFieldAllowed(b.frames[k], path)
    THEN [b |-> b, raised |-> TRUE]
    ELSE [b |-> [b EXCEPT !.selection_set = @ \cup {path},
                          !.frames = [k \in 1..Len(b.frames) |->
                                         IF k \in Range(b.current_frames)
                                         THEN AddField(b.frames[k], path)
                                         ELSE b.frames[k]]],
          raised |-> FALSE]

\* ParsedQueryBuilder._add_frame
BuilderAddFrame(b, frame) ==
    [b EXCEPT !.current_frames = <<Len(b.frames) + 1>> \o @,
              !.frames = Append(@, frame)]

\* ParsedQueryBuilder.begin_frame; path[-1] raises on the empty path
BuilderBeginFrame(b, path) ==
    IF path = <<>> THEN [b |-> b, raised |-> TRUE]
    ELSE LET name == path[Len(path)]
         IN IF name \in b.frame_names
            THEN [b |-> b, raised |-> TRUE]
            ELSE [b |-> BuilderAddFrame(b, FrameInfoBuilder(path, name)), raised |-> FALSE]

\* ParsedQueryBuilder.end_frame; popleft raises on the empty deque
BuilderEndFrame(b) ==
    IF b.current_frames = <<>> THEN [b |-> b, raised |-> TRUE]
    ELSE [b |-> [b EXCEPT !.current_frames = Tail(@)], raised |-> FALSE]

\* ParsedQueryBuilder.build
BuilderBuild(b) == ParsedQuery(b.frames, b.selection_set)

(***************************************************************************)
(* The builder as a state machine: at most MaxCalls calls of begin_frame,  *)
(* add_path and end_frame with the paths below, then build.                *)
(***************************************************************************)
BuilderPaths == {<<>>, <<<<"a">>>>, <<<<"b">>>>, <<<<"a">>, <<"b">>>>, <<<<"b">>, <<"a">>>>}

Builder ==
    [frames |-> frames, current_frames |-> current_frames,
     frame_names |-> frame_names, selection_set |-> selection_set]

InitBuilder ==
    /\ frames = NewBuilder.frames
    /\ current_frames = NewBuilder.current_frames
    /\ frame_names = NewBuilder.frame_names
    /\ selection_set = NewBuilder.selection_set
    /\ calls = <<>>
    /\ obj = Null
    /\ stack = <<>>
    /\ pc = "building"
    /\ NormalizerIdle /\ ExtractorIdle /\ RenamerIdle /\ EngineIdle /\ VisitorIdle /\ ExecutorIdle

\* the call returned r: the builder's state after it, or the error
Called(r, call) ==
    /\ frames' = r.b.frames
    /\ current_frames' = r.b.current_frames
    /\ frame_names' = r.b.frame_names
    /\ selection_set' = r.b.selection_set
    /\ pc' = IF r.raised THEN "raised" ELSE "building"
    /\ calls' = Append(calls, call)
    /\ UNCHANGED <<obj, stack, normalizerVars, extractorVars, renamerVars, engineVars,
                   visitorVars, executorVars>>

CanCall == pc = "building" /\ Len(calls) < MaxCalls

BeginFrame == CanCall /\ \E path \in BuilderPaths : Called(BuilderBeginFrame(Builder, path), "begin_frame")
AddPath == CanCall /\ \E path \in BuilderPaths : Called(BuilderAddPath(Builder, path), "add_path")
EndFrame == CanCall /\ Called(BuilderEndFrame(Builder), "end_frame")

Build ==
    /\ pc = "building"
    /\ query' = BuilderBuild(Builder)
    /\ pc' = "built"
    /\ UNCHANGED <<obj, stack, captured, frame_data, extracted,
                   normalizerVars, builderVars, renamerVars, engineVars, visitorVars, executorVars>>

NextBuilder == BeginFrame \/ AddPath \/ EndFrame \/ Build

SpecBuilder == InitBuilder /\ [][NextBuilder]_vars

Built == pc = "built"

BuilderTypeOK ==
    /\ pc \in {"building", "built", "raised"}
    /\ Range(current_frames) \subseteq 1..Len(frames)

(***************************************************************************)
(* C17: frame names are unique within one parsed query: a second frame     *)
(* with the name of a frame already declared is rejected while the query   *)
(* description is built, so a built ParsedQuery never holds two frames     *)
(* with the same name.                                                     *)
(***************************************************************************)
C17_BuiltNamesUnique ==
    Built => \A i, j \in 1..Len(query.frames) :
                 i # j => query.frames[i].name # query.frames[j].name

(***************************************************************************)
(* ShortColumnNamesBuilder (_execution.py:166-205).  A ShortColumn is      *)
(* [original_name, new_name, parts]; the two dicts are their (key, column) *)
(* items in insertion order.  b is [new_to_old, old_to_new]; add returns   *)
(* [b, raised], raised when a del finds no key.                            *)
(***************************************************************************)
\* the index of the first occurrence of sep in s, 0 when there is none
FindStr(s, sep) ==
    LET hits == {i \in 1..(Len(s) - Len(sep) + 1) : SubSeq(s, i, i + Len(sep) - 1) = sep}
    IN IF hits = {} THEN 0 ELSE CHOOSE i \in hits : \A j \in hits : i <= j

\* str.split(sep), sep not empty
RECURSIVE Split(_, _)
Split(s, sep) ==
    LET i == FindStr(s, sep)
    IN IF i = 0 THEN <<s>>
       ELSE <<SubSeq(s, 1, i - 1)>> \o Split(SubSeq(s, i + Len(sep), Len(s)), sep)

ShortColumn(original_name, new_name, parts) ==
    [original_name |-> original_name, new_name |-> new_name, parts |-> parts]

NewShortNames == [new_to_old |-> <<>>, old_to_new |-> <<>>]

\* ShortColumnNamesBuilder._create
ShortCreate(sep, name) ==
    LET parts == Split(name, sep) IN ShortColumn(name, parts[Len(parts)], parts)

\* ShortColumnNamesBuilder._get: an Optional
ShortGet(b, item) ==
    IF RowHas(b.new_to_old, item.new_name) THEN Some(RowGet(b.new_to_old, item.new_name))
    ELSE None

\* parts[-2:]
LastTwo(parts) == SubSeq(parts, IF Len(parts) > 2 THEN Len(parts) - 1 ELSE 1, Len(parts))

\* ShortColumnNamesBuilder._prepend_parent
PrependParent(sep, item) ==
    LET parts == LastTwo(item.parts)
    IN [item EXCEPT !.new_name = StrJoin(sep, parts), !.parts = parts]

\* ShortColumnNamesBuilder._add
ShortAddItem(b, item) ==
    [new_to_old |-> RowSetItem(b.new_to_old, item.new_name, item),
     old_to_new |-> RowSetItem(b.old_to_new, item.original_name, item)]

\* ShortColumnNamesBuilder.add
ShortAdd(sep, b, old_name) ==
    LET column == ShortCreate(sep, old_name)
        existing == ShortGet(b, column)
    IN IF existing.some
       THEN IF ~RowHas(b.old_to_new, existing.v.original_name)
            THEN [b |-> b, raised |-> TRUE]
            ELSE LET removed == [new_to_old |-> DictDel(b.new_to_old, existing.v.new_name),
                                 old_to_new |-> DictDel(b.old_to_new, existing.v.original_name)]
                     widened == ShortAddItem(removed, PrependParent(sep, existing.v))
                 IN [b |-> ShortAddItem(widened, column), raised |-> FALSE]
       ELSE [b |-> ShortAddItem(b, column), raised |-> FALSE]

\* ShortColumnNamesBuilder.build: original name -> new name
ShortBuild(b) ==
    [i \in 1..Len(b.old_to_new) |->
        <<b.old_to_new[i][2].original_name, b.old_to_new[i][2].new_name>>]

(***************************************************************************)
(* rename_short as a state machine: one add per column of the table, then  *)
(* build.  The columns are at most MaxColumns different names.             *)
(***************************************************************************)
ColumnNames ==
    {<<"i", "d">>,
     <<"a", ".", "i", "d">>,
     <<"b", ".", "i", "d">>,
     <<"a", ".", "b", ".", "i", "d">>,
     <<"c", ".", "b", ".", "i", "d">>,
     <<"a", ".", "b">>}

IsInjective(seq) == \A i, j \in 1..Len(seq) : i # j => seq[i] # seq[j]

InitRename ==
    /\ short_separator \in Separators
    /\ columns \in {cs \in SeqsUpTo(ColumnNames, MaxColumns) : IsInjective(cs)}
    /\ n_added = 0
    /\ new_to_old = NewShortNames.new_to_old
    /\ old_to_new = NewShortNames.old_to_new
    /\ obj = Null
    /\ stack = <<>>
    /\ pc = "rename"
    /\ NormalizerIdle /\ ExtractorIdle /\ BuilderIdle /\ EngineIdle /\ VisitorIdle /\ ExecutorIdle

ShortNames == [new_to_old |-> new_to_old, old_to_new |-> old_to_new]

\* `for old_name in df.columns: builder.add(old_name)`
RenameAdd ==
    /\ pc = "rename"
    /\ n_added < Len(columns)
    /\ LET r == ShortAdd(short_separator, ShortNames, columns[n_added + 1])
       IN /\ new_to_old' = r.b.new_to_old
          /\ old_to_new' = r.b.old_to_new
          /\ pc' = IF r.raised THEN "raised" ELSE "rename"
    /\ n_added' = n_added + 1
    /\ UNCHANGED <<obj, stack, short_separator, columns,
                   normalizerVars, extractorVars, builderVars, engineVars, visitorVars, executorVars>>

\* the loop ends and the columns are renamed by builder.build()
RenameBuild ==
    /\ pc = "rename"
    /\ n_added = Len(columns)
    /\ pc' = "renamed"
    /\ UNCHANGED <<obj, stack, renamerVars, normalizerVars, extractorVars, builderVars,
                   engineVars, visitorVars, executorVars>>

NextRename == RenameAdd \/ RenameBuild

SpecRename == InitRename /\ [][NextRename]_vars

Renamed == pc = "renamed"

\* the new name build() gives a column
NewName(name) == RowGet(ShortBuild(ShortNames), name)

RenameTypeOK ==
    /\ pc \in {"rename", "renamed"}
    /\ n_added \in 0..Len(columns)

(***************************************************************************)
(* C18: under the short policy a column whose last segment is unique is    *)
(* renamed to that last segment, and when two columns share a last segment *)
(* both are renamed to their two-segment suffix parent.leaf: a.id and b.id *)
(* end as a.id and b.id, neither as the bare id.                           *)
(***************************************************************************)
LastSegment(name) == LET parts == Split(name, short_separator) IN parts[Len(parts)]

TwoSegments(name) == StrJoin(short_separator, LastTwo(Split(name, short_separator)))

\* the columns that end in the last segment of name
Sharing(name) == {i \in 1..Len(columns) : LastSegment(columns[i]) = LastSegment(name)}

C18_CollidingBothWidened ==
    Renamed =>
        \A i \in 1..Len(columns) :
            /\ Cardinality(Sharing(columns[i])) = 1 => NewName(columns[i]) = LastSegment(columns[i])
            /\ Cardinality(Sharing(columns[i])) = 2 => NewName(columns[i]) = TwoSegments(columns[i])

(***************************************************************************)
(* The columnar entry points (_engine.py), as they run without the         *)
(* extension module.  A columnar result is a dict of column name to list   *)
(* of values, a sequence of <<name, values>> in insertion order; a call    *)
(* gives [raised, v], v being empty when it raised.                        *)
(***************************************************************************)
Returned(v) == [raised |-> FALSE, v |-> v]
Raised == [raised |-> TRUE, v |-> <<>>]

\* `columns = {k: [] for k in rows[0]}`
EmptyColumns(row) == [i \in 1..Len(row) |-> <<row[i][1], <<>>>>]

\* `for k, v in row.items(): columns[k].append(v)`, KeyError when columns
\* has no k
RECURSIVE PivotRow(_, _)
PivotRow(cols, items) ==
    IF items = <<>> THEN Returned(cols)
    ELSE LET k == Head(items)[1]
             v == Head(items)[2]
         IN IF ~RowHas(cols, k) THEN Raised
            ELSE PivotRow(RowSetItem(cols, k, Append(RowGet(cols, k), v)), Tail(items))

\* `for row in rows: ...`
RECURSIVE PivotRows(_, _)
PivotRows(cols, rs) ==
    IF rs = <<>> THEN Returned(cols)
    ELSE LET r == PivotRow(cols, Head(rs))
         IN IF r.raised THEN Raised ELSE PivotRows(r.v, Tail(rs))

\* normalize_columnar(obj, separator, fallback, selection_set)
NormalizeColumnar(opts, o) ==
    LET rs == NormalizeRows(opts, o)
    IN IF rs = <<>> THEN Returned(<<>>) ELSE PivotRows(EmptyColumns(rs[1]), rs)

\* `if k not in merged: merged[k] = []` and `merged[k].append(v)`, for the
\* items of one row
RECURSIVE MergeRow(_, _)
MergeRow(merged, items) ==
    IF items = <<>> THEN merged
    ELSE LET k == Head(items)[1]
             v == Head(items)[2]
             made == IF RowHas(merged, k) THEN merged ELSE RowSetItem(merged, k, <<>>)
         IN MergeRow(RowSetItem(made, k, Append(RowGet(made, k), v)), Tail(items))

\* `for row in rows: ...`
RECURSIVE MergeRows(_, _)
MergeRows(merged, rs) ==
    IF rs = <<>> THEN merged ELSE MergeRows(MergeRow(merged, Head(rs)), Tail(rs))

\* `for obj in objects: ...`
RECURSIVE MergeObjects(_, _, _)
MergeObjects(opts, merged, os) ==
    IF os = <<>> THEN merged
    ELSE MergeObjects(opts, MergeRows(merged, NormalizeRows(opts, Head(os))), Tail(os))

\* normalize_columnar_batch(objects, separator, fallback, selection_set)
NormalizeColumnarBatch(opts, os) == Returned(MergeObjects(opts, <<>>, os))

\* the per-column concatenation of the results of single-tree calls:
\* `if k not in merged: merged[k] = []` and `merged[k].extend(v)`
RECURSIVE ExtendColumns(_, _)
ExtendColumns(merged, cols) ==
    IF cols = <<>> THEN merged
    ELSE LET k == Head(cols)[1]
             v == Head(cols)[2]
             made == IF RowHas(merged, k) THEN merged ELSE RowSetItem(merged, k, <<>>)
         IN ExtendColumns(RowSetItem(made, k, RowGet(made, k) \o v), Tail(cols))

(***************************************************************************)
(* The trees of a batch: leaves, objects, and arrays whose elements have   *)
(* the same fields, fewer fields than the first, or other fields.          *)
(***************************************************************************)
BatchField(k, v) == <<k, v>>

BatchItems ==
    LET a == BatchField(<<"a">>, JInt(<<"0">>))
        b == BatchField(<<"b">>, JStr(<<"s">>))
        one == {Null, JInt(<<"0">>), Obj(<<a>>), Obj(<<b>>), Obj(<<a, b>>), Obj(<<b, a>>)}
        elems == {Obj(<<a>>), Obj(<<b>>), Obj(<<b, a>>), Null}
    IN one \cup {Arr(<<>>)} \cup {Arr(<<x>>) : x \in elems}
           \cup {Arr(<<x, y>>) : x, y \in elems}

BatchOptionSets ==
    [separator : {DefaultSeparator}, fallback : {DefaultFallback},
     selection_set : {None, Some({<<<<"a">>>>})}]

(***************************************************************************)
(* Both ways of flattening a list of trees: the batch call, then one       *)
(* single-tree call per tree, in order, each result merged into            *)
(* `individual`; an exception ends the loop.                               *)
(***************************************************************************)
InitBatch ==
    /\ objects \in SeqsUpTo(BatchItems, MaxObjects)
    /\ options \in BatchOptionSets
    /\ n_called = 0
    /\ individual = Returned(<<>>)
    /\ batch = None
    /\ obj = Null
    /\ stack = <<>>
    /\ rows = NewContext.rows
    /\ paths = NewContext.paths
    /\ pc = "batch"
    /\ ExtractorIdle /\ BuilderIdle /\ RenamerIdle /\ VisitorIdle /\ ExecutorIdle

\* normalize_columnar_batch(objects, ...)
CallBatch ==
    /\ pc = "batch"
    /\ batch' = Some(NormalizeColumnarBatch(options, objects))
    /\ pc' = IF objects = <<>> THEN "compared" ELSE "single"
    /\ UNCHANGED <<obj, stack, objects, n_called, individual,
                   normalizerVars, extractorVars, builderVars, renamerVars, visitorVars, executorVars>>

\* normalize_columnar(item, ...) for the next tree, and the merge of what
\* it returns
CallColumnar ==
    /\ pc = "single"
    /\ LET r == NormalizeColumnar(options, objects[n_called + 1])
       IN /\ individual' = IF r.raised THEN Raised
                           ELSE Returned(ExtendColumns(individual.v, r.v))
          /\ pc' = IF r.raised \/ n_called + 1 = Len(objects) THEN "compared" ELSE "single"
    /\ n_called' = n_called + 1
    /\ UNCHANGED <<obj, stack, objects, batch,
                   normalizerVars, extractorVars, builderVars, renamerVars, visitorVars, executorVars>>

NextBatch == CallBatch \/ CallColumnar

SpecBatch == InitBatch /\ [][NextBatch]_vars

Compared == pc = "compared"

BatchTypeOK ==
    /\ pc \in {"batch", "single", "compared"}
    /\ n_called \in 0..Len(objects)
    /\ pc # "batch" => batch.some

(***************************************************************************)
(* C19: normalize_columnar_batch(objects) gives what the single-tree       *)
(* normalize_columnar gives when called once per tree in order and its     *)
(* results are concatenated column by column: the same columns in the same *)
(* order with the same values, and the batch call succeeds exactly when    *)
(* every single-tree call succeeds.                                        *)
(***************************************************************************)
C19_BatchIsConcatenation ==
    Compared =>
        /\ batch.v.raised <=> individual.raised
        /\ ~batch.v.raised => batch.v.v = individual.v

\* the same columns, order and values whenever every single-tree call
\* returns
C19_GivenSinglesReturn ==
    Compared /\ ~individual.raised => batch.v = individual

\* a single-tree call raises on a tree the batch call flattens
C19_SingleRaisesBatchReturns ==
    /\ Compared
    /\ objects = <<Arr(<<Obj(<<BatchField(<<"a">>, JInt(<<"0">>))>>),
                        Obj(<<BatchField(<<"b">>, JStr(<<"s">>))>>)>>)>>
    /\ individual.raised
    /\ batch.v = Returned(<<BatchField(<<"a">>, <<JInt(<<"0">>)>>),
                            BatchField(<<"b">>, <<JStr(<<"s">>)>>)>>)

(***************************************************************************)
(* The engine behind _engine.normalize.  The extension module is given the *)
(* separator, the fallback and the selection set as a list, or None when   *)
(* the selection set is empty or None.  The extension is modelled from its *)
(* specification (the Normalizer's algorithm): a recursive flattening that *)
(* threads the rows-in-progress through the tree.                          *)
(***************************************************************************)
\* `ss = [list(p) for p in selection_set] if selection_set else None`
EngineSelection(ss) == IF TruthySet(ss) THEN Some(ss.v) ELSE None

\* the column of a leaf: the path joined with the separator, the fallback
\* when the join is empty
RustName(separator, fallback, path) ==
    LET joined == StrJoin(separator, path)
    IN IF joined = <<>> THEN fallback ELSE joined

\* the column set onto every row-in-progress
RustSet(rs, name, value) == [i \in 1..Len(rs) |-> RowSetItem(rs[i], name, value)]

\* a leaf is ignored when a selection set is configured and the path is not
\* in it
RustLeaf(separator, fallback, ss, path, value, rs) ==
    IF ss.some /\ path \notin ss.v THEN rs
    ELSE RustSet(rs, RustName(separator, fallback, path), value)

\* one row-in-progress paired with every row of the group, the columns of
\* the pair merged and the group's value winning
RustPairs(row, group) == [j \in 1..Len(group) |-> RowOr(row, group[j])]

\* the Cartesian product of the rows-in-progress and the row-group
RECURSIVE RustProduct(_, _)
RustProduct(rs, group) ==
    IF rs = <<>> THEN <<>> ELSE RustPairs(Head(rs), group) \o RustProduct(Tail(rs), group)

RECURSIVE RustFlatten(_, _, _, _, _, _)
\* the row-groups of the non-null elements of an array, each normalized on
\* its own under the path of the array, concatenated
RECURSIVE RustGroup(_, _, _, _, _)
RustGroup(separator, fallback, ss, path, items) ==
    IF items = <<>> THEN <<>>
    ELSE (IF Head(items) = Null THEN <<>>
          ELSE RustFlatten(separator, fallback, ss, path, Head(items), << <<>> >>))
         \o RustGroup(separator, fallback, ss, path, Tail(items))

\* the fields of an object in insertion order, each contributing to the same
\* rows
RECURSIVE RustFields(_, _, _, _, _, _)
RustFields(separator, fallback, ss, path, items, rs) ==
    IF items = <<>> THEN rs
    ELSE RustFields(separator, fallback, ss, path, Tail(items),
                    RustFlatten(separator, fallback, ss, Append(path, Head(items)[1]),
                                Head(items)[2], rs))

\* the rows-in-progress after the value at path
RustFlatten(separator, fallback, ss, path, value, rs) ==
    IF IsArrayValue(value)
    THEN LET group == RustGroup(separator, fallback, ss, path, value.items)
         IN IF group = <<>> THEN rs ELSE RustProduct(rs, group)
    ELSE IF IsObjectValue(value)
    THEN RustFields(separator, fallback, ss, path, value.items, rs)
    ELSE RustLeaf(separator, fallback, ss, path, value, rs)

\* _rust_normalize(obj, separator, fallback, ss)
RustNormalize(separator, fallback, ss, o) ==
    RustFlatten(separator, fallback, ss, <<>>, o, << <<>> >>)

\* what _engine.normalize returns with the extension module
EngineRust(opts, o) ==
    RustNormalize(opts.separator, opts.fallback.v, EngineSelection(opts.selection_set), o)

Callback(kind, path, value, action) ==
    [kind |-> kind, path |-> path, value |-> value, action |-> action]

\* what enter_object and enter_array return at a path
VisitorEnter(stopped, path) == IF path \in stopped THEN STOP ELSE CONTINUE

\* `put(path, current, leave=True)` and the puts of the children, also when
\* the visitor returned STOP
WalkerEnterAlwaysLeaves(rest, top, action) ==
    IF action # STOP
    THEN IF IsObjectValue(top.obj)
         THEN PutFields(Put(rest, top.path, top.obj, TRUE), top.path, top.obj.items)
         ELSE PutElements(Put(rest, top.path, top.obj, TRUE), top.path, top.obj.items)
    ELSE Put(rest, top.path, top.obj, TRUE)

\* `if visitor.enter_...(path, current) != STOP: put(path, current,
\* leave=True)` and the puts of the children
WalkerEnter(rest, top, action) ==
    IF action # STOP
    THEN IF IsObjectValue(top.obj)
         THEN PutFields(Put(rest, top.path, top.obj, TRUE), top.path, top.obj.items)
         ELSE PutElements(Put(rest, top.path, top.obj, TRUE), top.path, top.obj.items)
    ELSE rest

\* the paths of the objects and arrays of a tree
RECURSIVE ContainerPaths(_, _)
ContainerPaths(path, o) ==
    IF IsObjectValue(o)
    THEN {path} \cup UNION {ContainerPaths(PathAdd(path, o.items[i][1]), o.items[i][2]) :
                               i \in 1..Len(o.items)}
    ELSE IF IsArrayValue(o)
    THEN {path} \cup UNION {ContainerPaths(path, o.items[i]) : i \in 1..Len(o.items)}
    ELSE {}

\* the walker tells leaves apart by type only: trees with one scalar and null
RECURSIVE WalkLeaves(_)
WalkLeaves(o) ==
    IF IsObjectValue(o) THEN \A i \in 1..Len(o.items) : WalkLeaves(o.items[i][2])
    ELSE IF IsArrayValue(o) THEN \A i \in 1..Len(o.items) : WalkLeaves(o.items[i])
    ELSE o \in {Null, JInt(<<"0">>)}

WalkInputs(n) == {o \in Inputs(n) : WalkLeaves(o)}

InitWalk ==
    /\ obj \in WalkInputs(MaxNodes)
    /\ stops \in SUBSET ContainerPaths(<<>>, obj)
    /\ events = <<>>
    /\ stack = Put(<<>>, <<>>, obj, FALSE)
    /\ pc = "visit"
    /\ NormalizerIdle /\ ExtractorIdle /\ BuilderIdle /\ RenamerIdle /\ EngineIdle /\ ExecutorIdle

Visited == pc = "visited"
WalkerRunning == pc = "visit" /\ stack # <<>>

WalkerUnchanged ==
    UNCHANGED <<obj, pc, stops, normalizerVars, extractorVars, builderVars, renamerVars,
                engineVars, executorVars>>

\* `if leave: visitor.leave(path, current)`
WalkLeave ==
    /\ WalkerRunning /\ Top.leave
    /\ events' = Append(events, Callback("leave", Top.path, Top.obj, CONTINUE))
    /\ stack' = Tail(stack)
    /\ WalkerUnchanged

\* visitor.on_scalar(path, current)
WalkScalar ==
    /\ WalkerRunning /\ ~Top.leave /\ IsScalarValue(Top.obj)
    /\ events' = Append(events, Callback("on_scalar", Top.path, Top.obj, CONTINUE))
    /\ stack' = Tail(stack)
    /\ WalkerUnchanged

\* visitor.on_null(path)
WalkNull ==
    /\ WalkerRunning /\ ~Top.leave /\ Top.obj = Null
    /\ events' = Append(events, Callback("on_null", Top.path, Null, CONTINUE))
    /\ stack' = Tail(stack)
    /\ WalkerUnchanged

\* visitor.enter_object(path, current) and what follows from its return
WalkObject ==
    /\ WalkerRunning /\ ~Top.leave /\ IsObjectValue(Top.obj)
    /\ LET action == VisitorEnter(stops, Top.path)
       IN /\ events' = Append(events, Callback("enter_object", Top.path, Top.obj, action))
          /\ stack' = WalkerEnter(Tail(stack), Top, action)
    /\ WalkerUnchanged

\* visitor.enter_array(path, current) and what follows from its return
WalkArray ==
    /\ WalkerRunning /\ ~Top.leave /\ IsArrayValue(Top.obj)
    /\ LET action == VisitorEnter(stops, Top.path)
       IN /\ events' = Append(events, Callback("enter_array", Top.path, Top.obj, action))
          /\ stack' = WalkerEnter(Tail(stack), Top, action)
    /\ WalkerUnchanged

\* `while stack` ends
WalkReturn ==
    /\ pc = "visit"
    /\ stack = <<>>
    /\ pc' = "visited"
    /\ UNCHANGED <<obj, stack, stops, events, normalizerVars, extractorVars, builderVars,
                   renamerVars, engineVars, executorVars>>

NextWalk == WalkLeave \/ WalkScalar \/ WalkNull \/ WalkObject \/ WalkArray \/ WalkReturn

SpecWalk == InitWalk /\ [][NextWalk]_vars

WalkTypeOK ==
    /\ pc \in {"visit", "visited"}
    /\ \A i \in 1..Len(events) :
           events[i].kind \in {"enter_object", "enter_array", "leave", "on_scalar", "on_null"}

(***************************************************************************)
(* Vocabulary of the walker's properties.                                  *)
(***************************************************************************)
IsEnter(ev) == ev.kind \in {"enter_object", "enter_array"}
SameNode(ev, other) == ev.path = other.path /\ ev.value = other.value

\* the leave callbacks of the node of an enter callback, and its enters
LeavesOf(ev) == {j \in 1..Len(events) : events[j].kind = "leave" /\ SameNode(events[j], ev)}
EntersOf(ev) == {j \in 1..Len(events) : IsEnter(events[j]) /\ SameNode(events[j], ev)}

\* the callback of a leaf
LeafCallback(path, o) ==
    IF o = Null THEN Callback("on_null", path, Null, CONTINUE)
    ELSE Callback("on_scalar", path, o, CONTINUE)

EnterKind(o) == IF IsObjectValue(o) THEN "enter_object" ELSE "enter_array"

\* the path of the i-th child of a node at path
ChildPath(path, o, i) == IF IsObjectValue(o) THEN PathAdd(path, o.items[i][1]) ELSE path
ChildValue(o, i) == IF IsObjectValue(o) THEN o.items[i][2] ELSE o.items[i]

\* the callbacks of a subtree when an enter that returns STOP ends the
\* subtree without a leave: enter, the callbacks of the children one child
\* after the other, leave
RECURSIVE Framed(_, _, _)
RECURSIVE FramedChildren(_, _, _, _)
FramedChildren(stopped, path, o, i) ==
    IF i > Len(o.items) THEN <<>>
    ELSE Framed(stopped, ChildPath(path, o, i), ChildValue(o, i))
         \o FramedChildren(stopped, path, o, i + 1)

Framed(stopped, path, o) ==
    IF IsObjectValue(o) \/ IsArrayValue(o)
    THEN IF path \in stopped
         THEN <<Callback(EnterKind(o), path, o, STOP)>>
         ELSE <<Callback(EnterKind(o), path, o, CONTINUE)>>
              \o FramedChildren(stopped, path, o, 1)
              \o <<Callback("leave", path, o, CONTINUE)>>
    ELSE <<LeafCallback(path, o)>>

(***************************************************************************)
(* C21: every enter_object or enter_array call is followed by exactly one  *)
(* leave call for the same node, also when the enter callback returned     *)
(* STOP, and after a STOP nothing comes between the enter and the leave.   *)
(***************************************************************************)
C21_EnterLeaveSymmetric ==
    Visited =>
        \A i \in 1..Len(events) :
            IsEnter(events[i]) =>
                /\ Cardinality(LeavesOf(events[i])) = Cardinality(EntersOf(events[i]))
                /\ \E j \in LeavesOf(events[i]) : j > i
                /\ events[i].action = STOP =>
                       /\ i < Len(events)
                       /\ events[i + 1].kind = "leave"
                       /\ SameNode(events[i + 1], events[i])

\* C21 as the walker has it: an enter that does not return STOP is followed
\* by the callbacks of the node's children and then by one leave of the
\* node; an enter that returns STOP is followed by no leave of the node and
\* by no callback of any of its descendants.
C21_LeaveUnlessStopped ==
    Visited => events = Framed(stops, <<>>, obj)

\* a container with a child was stopped inside a container that was not
C21_Witness ==
    /\ Visited
    /\ \E i \in 1..Len(events) :
           /\ IsEnter(events[i])
           /\ events[i].action = STOP
           /\ events[i].value.items # <<>>
           /\ i > 1
    /\ events[Len(events)].kind = "leave"

(***************************************************************************)
(* C22: with a visitor that never returns STOP the callbacks come in       *)
(* depth-first pre-order: a node's callback before those of its            *)
(* descendants, fields in insertion order and elements in index order, a   *)
(* child's subtree finished before the next sibling, one leave per object  *)
(* or array after the callbacks of its descendants, none for a scalar or   *)
(* null.                                                                   *)
(***************************************************************************)
RECURSIVE DepthFirst(_, _)
RECURSIVE DepthFirstFrom(_, _, _)
DepthFirstFrom(path, o, i) ==
    IF i > Len(o.items) THEN <<>>
    ELSE DepthFirst(ChildPath(path, o, i), ChildValue(o, i)) \o DepthFirstFrom(path, o, i + 1)

DepthFirst(path, o) ==
    IF IsObjectValue(o) \/ IsArrayValue(o)
    THEN <<Callback(EnterKind(o), path, o, CONTINUE)>>
         \o DepthFirstFrom(path, o, 1)
         \o <<Callback("leave", path, o, CONTINUE)>>
    ELSE <<LeafCallback(path, o)>>

IsPrefixOf(xs, ys) == Len(xs) <= Len(ys) /\ xs = SubSeq(ys, 1, Len(xs))

C22_DepthFirstPreOrder ==
    stops = {} =>
        /\ IsPrefixOf(events, DepthFirst(<<>>, obj))
        /\ Visited => events = DepthFirst(<<>>, obj)

\* an object with two fields, one of them a container with a child, has
\* been walked to the end
C22_Witness ==
    /\ Visited
    /\ stops = {}
    /\ IsObjectValue(obj)
    /\ Len(obj.items) = 2
    /\ \E i \in 1..2 : /\ obj.items[i][2].t \in {"object", "array"}
                       /\ obj.items[i][2].items # <<>>

(***************************************************************************)
(* The two places that check the separator: normalize, before it builds    *)
(* its options and walks, and ExecutorOptions.__post_init__.  A call       *)
(* starts at pc = "call" (normalize) or pc = "options" (ExecutorOptions)   *)
(* and an AssertionError ends it at pc = "raised".                         *)
(***************************************************************************)
\* an assert that accepts every separator
SeparatorUnchecked(separator) == TRUE

\* `assert separator`
SeparatorOK(separator) == separator # <<>>

CallOptionSets ==
    [separator : Separators \cup {<<>>}, fallback : {DefaultFallback},
     selection_set : {None, Some({<<<<"a">>>>})}]

InitCall ==
    /\ obj \in WalkInputs(MaxNodes)
    /\ options \in CallOptionSets
    /\ stack = <<>>
    /\ rows = NewContext.rows
    /\ paths = NewContext.paths
    /\ pc \in {"call", "options"}
    /\ ExtractorIdle /\ BuilderIdle /\ RenamerIdle /\ EngineIdle /\ VisitorIdle
    /\ ExecutorIdle

\* normalize(obj, separator, fallback, selection_set) up to the walker's
\* first put
NormalizeCall ==
    /\ pc = "call"
    /\ IF SeparatorOK(options.separator)
       THEN /\ stack' = Put(<<>>, <<>>, obj, FALSE)
            /\ pc' = "walk"
       ELSE /\ stack' = stack
            /\ pc' = "raised"
    /\ UNCHANGED <<obj, options, rows, paths, extractorVars, builderVars, renamerVars,
                   engineVars, visitorVars, executorVars>>

\* ExecutorOptions(separator, ...): __post_init__
NewExecutorOptions ==
    /\ pc = "options"
    /\ pc' = IF SeparatorOK(options.separator) THEN "constructed" ELSE "raised"
    /\ UNCHANGED <<obj, options, stack, rows, paths, extractorVars, builderVars,
                   renamerVars, engineVars, visitorVars, executorVars>>

NextCall ==
    \/ NormalizeCall \/ NewExecutorOptions
    \/ LeaveStep \/ ScalarStep \/ NullStep \/ ObjectStep \/ ArrayStep \/ Return

SpecCall == InitCall /\ [][NextCall]_vars

(***************************************************************************)
(* C23: normalize called with an empty separator fails before any node of  *)
(* the input is visited and returns no rows; constructing ExecutorOptions  *)
(* with an empty separator fails likewise.                                 *)
(***************************************************************************)
C23_EmptySeparatorFailsFast ==
    options.separator = <<>> =>
        /\ pc \in {"call", "options", "raised"}
        /\ stack = <<>>
        /\ rows = NewContext.rows
        /\ paths = NewContext.paths

\* a call with an empty separator on a tree with leaves has failed
C23_Witness ==
    /\ pc = "raised"
    /\ options.separator = <<>>
    /\ IsObjectValue(obj)
    /\ obj.items # <<>>

(***************************************************************************)
(* Executor.execute (_execution.py:46-93).  The parsed query is given, the *)
(* client answers with the data `obj` and with or without errors, _extract *)
(* runs the extraction walk above, _normalize builds one table per entry   *)
(* of the extraction result and _rename_columns renames their columns.  A  *)
(* table is what the library is given: its rows, and the columns in the    *)
(* order the rows first name them.                                         *)
(***************************************************************************)
\* the column_names option: None, a string, or a dict of frame name to string
NoMode == [kind |-> "none"]
StrMode(m) == [kind |-> "str", v |-> m]
DictMode(d) == [kind |-> "dict", v |-> d]

\* the columns of library.create(data)
RECURSIVE TableColumns(_, _)
TableColumns(cols, rs) ==
    IF rs = <<>> THEN cols
    ELSE LET new == SelectSeq(KeysInOrder(Head(rs)), LAMBDA k : k \notin Range(cols))
         IN TableColumns(cols \o new, Tail(rs))

\* Executor._create_data_frame
CreateDataFrame(rs) == [columns |-> TableColumns(<<>>, rs), rows |-> rs]

\* `modes[name]`: [raised, v]
ModeOf(mode, name) ==
    IF mode.kind = "dict"
    THEN IF RowHas(mode.v, name) THEN Returned(StrMode(RowGet(mode.v, name))) ELSE Raised
    ELSE Returned(mode)

\* get_column_names: the renaming function, or ValueError
GetColumnNames(mode) ==
    IF mode.kind = "none" \/ (mode.kind = "str" /\ mode.v \in {"full", "FULL"})
    THEN Returned("rename_long")
    ELSE IF mode.kind = "str" /\ mode.v \in {"short", "SHORT"}
    THEN Returned("rename_short")
    ELSE Raised

\* `for old_name in df.columns: builder.add(old_name)`
RECURSIVE ShortAddAll(_, _, _)
ShortAddAll(sep, b, cols) ==
    IF cols = <<>> THEN Returned(b)
    ELSE LET r == ShortAdd(sep, b, Head(cols))
         IN IF r.raised THEN Raised ELSE ShortAddAll(sep, r.b, Tail(cols))

\* library.rename(df, columns=mapping)
RenameName(mapping, name) == IF RowHas(mapping, name) THEN RowGet(mapping, name) ELSE name

RenameTable(df, mapping) ==
    [columns |-> [i \in 1..Len(df.columns) |-> RenameName(mapping, df.columns[i])],
     rows |-> [i \in 1..Len(df.rows) |->
                  [j \in 1..Len(df.rows[i]) |->
                      <<RenameName(mapping, df.rows[i][j][1]), df.rows[i][j][2]>>]]]

\* rename_short
RenameShort(sep, df) ==
    LET r == ShortAddAll(sep, NewShortNames, df.columns)
    IN IF r.raised THEN Raised ELSE Returned(RenameTable(df, ShortBuild(r.v)))

\* rename_long
RenameLong(df) == Returned(df)

\* get_column_names(modes[name])(self._options, df)
RenameFrame(sep, mode, name, df) ==
    LET m == ModeOf(mode, name)
        f == IF m.raised THEN Raised ELSE GetColumnNames(m.v)
    IN IF f.raised THEN Raised
       ELSE IF f.v = "rename_short" THEN RenameShort(sep, df) ELSE RenameLong(df)

\* Executor._rename_columns: the dict comprehension over frames.items()
RECURSIVE RenameColumns(_, _, _)
RenameColumns(sep, mode, fs) ==
    IF fs = <<>> THEN Returned(<<>>)
    ELSE LET r == RenameFrame(sep, mode, Head(fs)[1], Head(fs)[2])
             rest == RenameColumns(sep, mode, Tail(fs))
         IN IF r.raised \/ rest.raised THEN Raised
            ELSE Returned(<<<<Head(fs)[1], r.v>>>> \o rest.v)

(***************************************************************************)
(* The inputs of execute: queries with no frame, one frame, a frame on a   *)
(* leaf field, a frame inside a frame and two frames side by side; data    *)
(* with the fields a and b.                                                *)
(***************************************************************************)
ExecField(k, v) == <<k, v>>

ExecQueries ==
    LET a == <<<<"a">>>>
        b == <<<<"b">>>>
        ab == <<<<"a">>, <<"b">>>>
        aa == <<<<"a">>, <<"a">>>>
    IN {ParsedQuery(<<>>, {ab}),
        ParsedQuery(<<FrameInfo(a, <<"a">>, {b})>>, {ab}),
        ParsedQuery(<<FrameInfo(b, <<"b">>, {})>>, {b}),
        ParsedQuery(<<FrameInfo(ab, <<"b">>, {})>>, {ab}),
        ParsedQuery(<<FrameInfo(a, <<"a">>, {b, <<<<"a">>, <<"b">>>>}),
                      FrameInfo(aa, <<"a">>, {b})>>, {ab, <<<<"a">>, <<"a">>, <<"b">>>>}),
        ParsedQuery(<<FrameInfo(a, <<"a">>, {b}), FrameInfo(b, <<"b">>, {})>>, {ab, b})}

ExecData ==
    LET zero == JInt(<<"0">>)
        str == JStr(<<"s">>)
    IN {Null,
        Obj(<<ExecField(<<"a">>, Obj(<<ExecField(<<"b">>, zero)>>))>>),
        Obj(<<ExecField(<<"a">>, Obj(<<ExecField(<<"b">>, zero), ExecField(<<"a">>, str)>>))>>),
        Obj(<<ExecField(<<"a">>, Arr(<<Obj(<<ExecField(<<"b">>, zero)>>),
                                       Obj(<<ExecField(<<"b">>, str)>>)>>)),
              ExecField(<<"b">>, Arr(<<zero, str>>))>>),
        Obj(<<ExecField(<<"a">>, Obj(<<ExecField(<<"a">>, Obj(<<ExecField(<<"b">>, str)>>)),
                                       ExecField(<<"b">>, zero)>>)),
              ExecField(<<"b">>, str)>>)}

ExecModes ==
    {NoMode, StrMode("full"), StrMode("FULL"), StrMode("short"), StrMode("SHORT"),
     StrMode("bogus"),
     DictMode(<<ExecField(<<"a">>, "short"), ExecField(<<"b">>, "full"),
                ExecField(<<"d", "e", "f", "a", "u", "l", "t">>, "full")>>),
     DictMode(<<ExecField(<<"a">>, "full"), ExecField(<<"b">>, "bogus"),
                ExecField(<<"d", "e", "f", "a", "u", "l", "t">>, "full")>>)}

ExecErrors == {None, Some(<<"error 1">>)}

InitExecute ==
    /\ obj \in ExecData
    /\ query \in ExecQueries
    /\ options \in [separator : Separators, fallback : {DefaultFallback},
                    selection_set : {None}]
    /\ column_names \in ExecModes
    /\ response = None
    /\ client_calls = 0
    /\ tables = <<>>
    /\ result = None
    /\ stack = <<>>
    /\ rows = NewContext.rows
    /\ paths = NewContext.paths
    /\ captured = NewExtractor.captured
    /\ frame_data = NewExtractor.frame_data
    /\ extracted = None
    /\ pc = "execute"
    /\ BuilderIdle /\ RenamerIdle /\ EngineIdle /\ VisitorIdle

\* `response = self._execute(new_request)`: the client answers
ClientExecute ==
    /\ pc = "execute"
    /\ \E errors \in ExecErrors : response' = Some([data |-> obj, errors |-> errors])
    /\ client_calls' = client_calls + 1
    /\ pc' = "extract"
    /\ UNCHANGED <<obj, stack, column_names, tables, result, normalizerVars, extractorVars,
                   builderVars, renamerVars, engineVars, visitorVars>>

\* `frames = self._normalize(extracted)`
NormalizeFrames ==
    /\ pc = "extracted"
    /\ LET named == ExecutorNormalize(options.separator, extracted.v)
       IN tables' = [i \in 1..Len(named) |-> <<named[i][1], CreateDataFrame(named[i][2])>>]
    /\ pc' = "normalized"
    /\ UNCHANGED <<obj, stack, column_names, response, client_calls, result, normalizerVars,
                   extractorVars, builderVars, renamerVars, engineVars, visitorVars>>

\* `frames = self._rename_columns(frames)` and the return of execute
RenameAndReturn ==
    /\ pc = "normalized"
    /\ LET r == RenameColumns(options.separator, column_names, tables)
       IN IF r.raised
          THEN /\ pc' = "raised"
               /\ result' = result
          ELSE /\ pc' = "returned"
               /\ result' = Some([data |-> response.v.data, errors |-> response.v.errors,
                                  frames |-> r.v])
    /\ UNCHANGED <<obj, stack, column_names, response, client_calls, tables, normalizerVars,
                   extractorVars, builderVars, renamerVars, engineVars, visitorVars>>

NextExecute == ClientExecute \/ NextExtract \/ NormalizeFrames \/ RenameAndReturn

SpecExecute == InitExecute /\ [][NextExecute]_vars

Normalized == pc = "normalized"
Returns == pc = "returned"

ExecuteTypeOK ==
    /\ pc \in {"execute", "extract", "visit", "extracted", "normalized", "returned", "raised"}
    /\ client_calls \in 0..1
    /\ result.some <=> Returns

(***************************************************************************)
(* C24: executing a query that declares no frame returns an empty frames   *)
(* dictionary, and the data and the errors of the client's response as     *)
(* they are.                                                               *)
(***************************************************************************)
C24_NoFrameNoTable ==
    Returns /\ IsImplicitMode(query) =>
        /\ result.v.frames = <<>>
        /\ result.v.data = obj
        /\ result.v.errors = response.v.errors

\* the data and the errors are passed through, with or without frames
C24_DataAndErrorsPassThrough ==
    Returns => result.v.data = obj /\ result.v.errors = response.v.errors

(***************************************************************************)
(* C25: the table of a frame is built with the frame's selection set as    *)
(* the pruning filter: every column of the table is the name of a path of  *)
(* the frame's selection set, relative to the frame.                       *)
(***************************************************************************)
FrameOptions(f) ==
    [separator |-> options.separator, fallback |-> Some(f.name), selection_set |-> None]

SelectedColumns(f) == {GenerateName(FrameOptions(f), p) : p \in f.selection_set}

C25_OnlySelectedColumns ==
    Normalized =>
        \A i \in 1..Len(query.frames) :
            LET f == query.frames[i]
            IN Range(RowGet(tables, f.name).columns) \subseteq SelectedColumns(f)

(***************************************************************************)
(* C26: a column_names option other than None, full, FULL, short or SHORT, *)
(* given for all frames or for one, is rejected before the request is      *)
(* executed: no client call, no extraction, no normalization.              *)
(***************************************************************************)
ValidName(m) == m \in {"full", "FULL", "short", "SHORT"}

InvalidMode(mode) ==
    \/ mode.kind = "str" /\ ~ValidName(mode.v)
    \/ mode.kind = "dict" /\ \E i \in 1..Len(mode.v) : ~ValidName(mode.v[i][2])

C26_InvalidModeRejectedFirst ==
    InvalidMode(column_names) =>
        /\ client_calls = 0
        /\ ~response.some
        /\ ~extracted.some
        /\ stack = <<>>
        /\ tables = <<>>
        /\ pc \in {"execute", "raised"}

\* the option is rejected, after the tables have been built
C26_RejectedAfterNormalization ==
    InvalidMode(column_names) /\ column_names.kind = "str" => ~Returns

(***************************************************************************)
(* C27: the rows of a frame are the concatenation, over its captured       *)
(* sub-trees in capture order, of normalize(capture, separator,            *)
(* fallback=frame name); a frame that captured bare scalars has the single *)
(* column named after the frame.                                           *)
(***************************************************************************)
CaptureRows(name, capture) ==
    NormalizeRows([separator |-> options.separator, fallback |-> Some(name),
                   selection_set |-> None], capture)

\* the number of rows of the first k captures
RECURSIVE RowsBefore(_, _, _)
RowsBefore(name, data, k) ==
    IF k = 0 THEN 0 ELSE RowsBefore(name, data, k - 1) + Len(CaptureRows(name, data[k]))

C27_RowsPerCaptureInOrder ==
    Normalized =>
        /\ Len(tables) = Len(extracted.v)
        /\ \A i \in 1..Len(tables) :
               LET name == extracted.v[i][1]
                   data == extracted.v[i][2]
                   rs == tables[i][2].rows
               IN /\ tables[i][1] = name
                  /\ Len(rs) = RowsBefore(name, data, Len(data))
                  /\ \A k \in 1..Len(data) :
                         SubSeq(rs, RowsBefore(name, data, k - 1) + 1,
                                RowsBefore(name, data, k)) = CaptureRows(name, data[k])
                  /\ (\A k \in 1..Len(data) : IsScalarValue(data[k])) =>
                         rs = [k \in 1..Len(data) |-> <<<<name, data[k]>>>>]

\* a frame captured two bare scalars and its table has been built
C27_Witness ==
    /\ Normalized
    /\ \E i \in 1..Len(tables) :
           /\ Len(extracted.v[i][2]) = 2
           /\ \A k \in 1..2 : IsScalarValue(extracted.v[i][2][k])
           /\ tables[i][2].columns = <<tables[i][1]>>
           /\ Len(tables[i][2].rows) = 2

(***************************************************************************)
(* C28: after every add on distinct column names the builder's two maps    *)
(* are inverse to each other, and build() returns one entry per added name *)
(* with distinct new names for distinct original names.                    *)
(***************************************************************************)
\* every entry of new_to_old is the entry of old_to_new of its column
NewToOldInOldToNew ==
    \A i \in 1..Len(new_to_old) :
        LET item == new_to_old[i][2]
        IN /\ item.new_name = new_to_old[i][1]
           /\ RowHas(old_to_new, item.original_name)
           /\ RowGet(old_to_new, item.original_name) = item

\* every entry of old_to_new is the entry of new_to_old of its new name
OldToNewInNewToOld ==
    \A i \in 1..Len(old_to_new) :
        LET item == old_to_new[i][2]
        IN /\ item.original_name = old_to_new[i][1]
           /\ RowHas(new_to_old, item.new_name)
           /\ RowGet(new_to_old, item.new_name) = item

Added == {columns[i] : i \in 1..n_added}

C28_ShortNamesInjective ==
    pc \in {"rename", "renamed"} =>
        /\ NewToOldInOldToNew
        /\ OldToNewInNewToOld
        /\ LET built == ShortBuild(ShortNames)
           IN /\ Len(built) = n_added
              /\ RowKeys(built) = Added
              /\ \A i, j \in 1..Len(built) : i # j => built[i][2] # built[j][2]

\* what stays true of the maps: one entry per added name, and new_to_old
\* holds entries of old_to_new
C28_OneEntryPerName ==
    pc \in {"rename", "renamed"} =>
        /\ NewToOldInOldToNew
        /\ Len(ShortBuild(ShortNames)) = n_added
        /\ RowKeys(ShortBuild(ShortNames)) = Added

(***************************************************************************)
(* C29: a normalize call has at least one row-in-progress at every step    *)
(* and returns at least one row; the number of rows never decreases: a     *)
(* scalar or null leaf, an object and a leave keep it, and entering an     *)
(* array keeps it when the array's row-group is empty and multiplies it by *)
(* the size of the row-group otherwise.                                    *)
(***************************************************************************)
\* the row-group of the array on top of the stack
TopRowGroup == Chain(ResultRows(NormalizeItems(options, Top.path, ArrayItems(Top.obj))))

C29_Step ==
    /\ Len(rows') >= Len(rows)
    /\ Walking /\ ~(~Top.leave /\ IsArrayValue(Top.obj)) => Len(rows') = Len(rows)
    /\ EnteringArray =>
           Len(rows') = IF TopRowGroup = <<>> THEN Len(rows)
                        ELSE Len(rows) * Len(TopRowGroup)

C29_RowsNeverDecrease == [](Len(rows) >= 1) /\ [][C29_Step]_vars

\* an array of two rows has doubled the rows and normalize has returned them
C29_Witness ==
    /\ Done
    /\ IsObjectValue(obj)
    /\ Len(rows) = 2

(***************************************************************************)
(* C30: pruning is a column projection.  For a tree whose leaf paths have  *)
(* pairwise distinct column names and a non-empty selection set S,         *)
(* normalize with S returns as many rows, in the same order, as normalize  *)
(* without a selection set, and each row is the unpruned row restricted to *)
(* the columns whose path is in S.                                         *)
(***************************************************************************)
Unpruned == [options EXCEPT !.selection_set = None]

DistinctLeafNames ==
    \A p, q \in LeafPaths(<<>>, obj) :
        p # q => GenerateName(options, p) # GenerateName(options, q)

\* the columns of the leaves whose path is selected
SelectedLeafColumns ==
    {GenerateName(options, p) : p \in LeafPaths(<<>>, obj) \cap options.selection_set.v}

Restrict(row, names) == SelectSeq(row, LAMBDA item : item[1] \in names)

C30_PruningIsProjection ==
    Done /\ TruthySet(options.selection_set) /\ DistinctLeafNames =>
        LET full == NormalizeRows(Unpruned, obj)
        IN RowsEq(rows, [i \in 1..Len(full) |-> Restrict(full[i], SelectedLeafColumns)])

\* a selection set removed a column of some row and kept another
C30_Witness ==
    /\ Done
    /\ TruthySet(options.selection_set)
    /\ DistinctLeafNames
    /\ Len(rows) >= 2
    /\ \E i \in 1..Len(rows) :
           /\ rows[i] # <<>>
           /\ Len(rows[i]) < Len(NormalizeRows(Unpruned, obj)[i])
====
